---- MODULE Spec2Model ----
(***************************************************************************)
(* Professor identity resolution and enrichment (data-app/src/rmp/rmp.py). *)
(*                                                                         *)
(* A text value (a Python str) is a sequence of one-character strings, so  *)
(* that strip, split, lower, the two regular expressions of               *)
(* _canonicalize_name and the similarity score are computed character by   *)
(* character as the code computes them.                                    *)
(***************************************************************************)
EXTENDS Integers, Sequences, FiniteSets, TLC

\* ------------------------------------------------------------------------
\* Characters and Python's str primitives
\* ------------------------------------------------------------------------

\* The element of a one-element set.  Only({e(x) : x \in {v}}) is e(v), with
\* v computed once however often e uses it.
Only(S) ==
  CHOOSE x \in S : TRUE

Letters ==
  <<"a","b","c","d","e","f","g","h","i","j","k","l","m",
    "n","o","p","q","r","s","t","u","v","w","x","y","z">>

Capitals ==
  <<"A","B","C","D","E","F","G","H","I","J","K","L","M",
    "N","O","P","Q","R","S","T","U","V","W","X","Y","Z">>

\* The characters in code-point order (space < "," < "." < capitals <
\* letters).
CodeOrder ==
  <<" ", ",", ".">> \o Capitals \o Letters

CharRank(c) ==
  CHOOSE i \in 1..Len(CodeOrder) : CodeOrder[i] = c

IsSpace(c) ==
  c = " "

\* \w of the re module, over the characters of the model.
IsWordChar(c) ==
  \E i \in 1..26 : Letters[i] = c \/ Capitals[i] = c

LowerChar(c) ==
  IF \E i \in 1..26 : Capitals[i] = c
  THEN Letters[CHOOSE i \in 1..26 : Capitals[i] = c]
  ELSE c

RECURSIVE Lower(_)
\* str.lower()
Lower(s) ==
  Only({ IF x = <<>> THEN <<>> ELSE <<LowerChar(Head(x))>> \o Lower(Tail(x)) :
           x \in {s} })

RECURSIVE LStrip(_)
LStrip(s) ==
  Only({ IF x # <<>> /\ IsSpace(Head(x)) THEN LStrip(Tail(x)) ELSE x :
           x \in {s} })

RECURSIVE RStrip(_)
RStrip(s) ==
  Only({ IF x # <<>> /\ IsSpace(x[Len(x)])
         THEN RStrip(SubSeq(x, 1, Len(x) - 1)) ELSE x :
           x \in {s} })

\* str.strip()
Strip(s) ==
  RStrip(LStrip(s))

RECURSIVE SplitAcc(_, _, _)
SplitAcc(s, cur, out) ==
  Only({ IF x = <<>>
         THEN IF c = <<>> THEN o ELSE Append(o, c)
         ELSE IF IsSpace(Head(x))
              THEN SplitAcc(Tail(x), <<>>, IF c = <<>> THEN o ELSE Append(o, c))
              ELSE SplitAcc(Tail(x), Append(c, Head(x)), o) :
           x \in {s}, c \in {cur}, o \in {out} })

\* str.split(): the whitespace-separated tokens
Split(s) ==
  SplitAcc(s, <<>>, <<>>)

RECURSIVE Join(_)
\* " ".join(tokens)
Join(tokens) ==
  Only({ IF t = <<>> THEN <<>>
         ELSE IF Len(t) = 1 THEN t[1]
         ELSE t[1] \o <<" ">> \o Join(Tail(t)) :
           t \in {tokens} })

\* s[i:] starts with the lowercase word w, ignoring case (re.IGNORECASE)
StartsWithCI(s, i, w) ==
  /\ i + Len(w) - 1 <= Len(s)
  /\ \A k \in 1..Len(w) : LowerChar(s[i + k - 1]) = w[k]

RECURSIVE SkipSpaces(_, _)
\* the index after the run of whitespace that starts at i (\s*)
SkipSpaces(s, i) ==
  IF i <= Len(s) /\ IsSpace(s[i]) THEN SkipSpaces(s, i + 1) ELSE i

\* ------------------------------------------------------------------------
\* NameCanonicalizer
\* ------------------------------------------------------------------------

\* The alternation (dr|prof|professor) tried in order at a word boundary:
\* the length matched at index i, 0 when there is no match.  What follows
\* the alternation (\.?\s*) never fails, so the first alternative that
\* matches is the one taken.
TitleAt(s, i) ==
  IF ~(i = 1 \/ ~IsWordChar(s[i - 1])) THEN 0
  ELSE IF StartsWithCI(s, i, <<"d","r">>) THEN 2
  ELSE IF StartsWithCI(s, i, <<"p","r","o","f">>) THEN 4
  ELSE IF StartsWithCI(s, i, <<"p","r","o","f","e","s","s","o","r">>) THEN 9
  ELSE 0

RECURSIVE RemoveTitlesFrom(_, _, _)
RemoveTitlesFrom(s, i, out) ==
  Only({ IF i0 > Len(x) THEN o
         ELSE IF n = 0 THEN RemoveTitlesFrom(x, i0 + 1, Append(o, x[i0]))
         ELSE LET j == i0 + n
                  k == IF j <= Len(x) /\ x[j] = "." THEN j + 1 ELSE j
              IN  RemoveTitlesFrom(x, SkipSpaces(x, k), o) :
           x \in {s}, i0 \in {i}, o \in {out},
           n \in {IF i > Len(s) THEN 0 ELSE TitleAt(s, i)} })

\* re.sub(r'\b(dr|prof|professor)\.?\s*', '', name, flags=re.IGNORECASE)
RemoveTitles(s) ==
  RemoveTitlesFrom(s, 1, <<>>)

Suffixes ==
  << <<"j","r">>, <<"s","r">>, <<"i","i">>, <<"i","i","i">>, <<"i","v">> >>

\* b ends with the suffix w, which whitespace precedes
EndsWithSuffix(b, w) ==
  /\ Len(b) > Len(w)
  /\ StartsWithCI(b, Len(b) - Len(w) + 1, w)
  /\ IsSpace(b[Len(b) - Len(w)])

\* re.sub(r'\s+(jr|sr|ii|iii|iv)\.?$', '', name, flags=re.IGNORECASE):
\* one generational suffix at the end of the text, with the whitespace
\* before it and an optional full stop after it.
RemoveSuffix(s) ==
  Only({ LET b == IF x # <<>> /\ x[Len(x)] = "."
                  THEN SubSeq(x, 1, Len(x) - 1) ELSE x
             hits == {k \in 1..Len(Suffixes) : EndsWithSuffix(b, Suffixes[k])}
         IN  IF hits = {} THEN x
             ELSE LET w == Suffixes[CHOOSE k \in hits : TRUE]
                  IN  RStrip(SubSeq(b, 1, Len(b) - Len(w))) :
           x \in {s} })

\* RMP._canonicalize_name
canonicalize_name(name) ==
  Only({ IF x = <<>> THEN <<>>
         ELSE LET n1 == Join(Split(Strip(x)))
                  n2 == RemoveTitles(n1)
                  n3 == RemoveSuffix(n2)
                  n4 == Join(Split(n3))
              IN  Lower(n4) :
           x \in {name} })

\* RMP._nickname_map: each full first name with its nicknames, in the
\* order of the dict.
nickname_map ==
  <<
    [full |-> <<"r","o","b","e","r","t">>,
     nicknames |-> << <<"r","o","b">>, <<"b","o","b">>, <<"b","o","b","b","y">> >>],
    [full |-> <<"w","i","l","l","i","a","m">>,
     nicknames |-> << <<"w","i","l","l">>, <<"b","i","l","l">>, <<"b","i","l","l","y">> >>],
    [full |-> <<"j","a","m","e","s">>,
     nicknames |-> << <<"j","i","m">>, <<"j","i","m","m","y">> >>],
    [full |-> <<"m","i","c","h","a","e","l">>,
     nicknames |-> << <<"m","i","k","e">>, <<"m","i","c","k">> >>],
    [full |-> <<"d","a","v","i","d">>,
     nicknames |-> << <<"d","a","v","e">>, <<"d","a","v","y">> >>],
    [full |-> <<"r","i","c","h","a","r","d">>,
     nicknames |-> << <<"r","i","c","k">>, <<"d","i","c","k">> >>],
    [full |-> <<"t","h","o","m","a","s">>,
     nicknames |-> << <<"t","o","m">>, <<"t","o","m","m","y">> >>],
    [full |-> <<"c","h","a","r","l","e","s">>,
     nicknames |-> << <<"c","h","a","r","l","i","e">>, <<"c","h","u","c","k">> >>],
    [full |-> <<"c","h","r","i","s","t","o","p","h","e","r">>,
     nicknames |-> << <<"c","h","r","i","s">> >>],
    [full |-> <<"d","a","n","i","e","l">>,
     nicknames |-> << <<"d","a","n">>, <<"d","a","n","n","y">> >>],
    [full |-> <<"m","a","t","t","h","e","w">>,
     nicknames |-> << <<"m","a","t","t">> >>],
    [full |-> <<"a","n","t","h","o","n","y">>,
     nicknames |-> << <<"t","o","n","y">> >>],
    [full |-> <<"j","o","s","e","p","h">>,
     nicknames |-> << <<"j","o","e">>, <<"j","o","e","y">> >>],
    [full |-> <<"a","n","d","r","e","w">>,
     nicknames |-> << <<"a","n","d","y">>, <<"d","r","e","w">> >>],
    [full |-> <<"e","l","i","z","a","b","e","t","h">>,
     nicknames |-> << <<"l","i","z">>, <<"b","e","t","h">>, <<"b","e","t","t","y">> >>],
    [full |-> <<"m","a","r","g","a","r","e","t">>,
     nicknames |-> << <<"m","e","g">>, <<"m","a","g","g","i","e">> >>],
    [full |-> <<"p","a","t","r","i","c","i","a">>,
     nicknames |-> << <<"p","a","t">>, <<"p","a","t","t","y">> >>],
    [full |-> <<"j","e","n","n","i","f","e","r">>,
     nicknames |-> << <<"j","e","n">>, <<"j","e","n","n","y">> >>],
    [full |-> <<"s","u","s","a","n">>,
     nicknames |-> << <<"s","u","e">>, <<"s","u","z","y">> >>],
    [full |-> <<"s","a","l","v","a","d","o","r">>,
     nicknames |-> << <<"s","a","l">> >>]
  >>

\* RMP._get_name_variants: the set the method returns (list(set(variants)))
get_name_variants(first_name) ==
  Only({ LET entries == {nickname_map[i] : i \in 1..Len(nickname_map)}
             Nicks(e) == {e.nicknames[j] : j \in 1..Len(e.nicknames)}
         IN  {canonical_first}
             \cup UNION {Nicks(e) : e \in {x \in entries : x.full = canonical_first}}
             \cup UNION {{e.full} \cup Nicks(e) :
                           e \in {x \in entries : canonical_first \in Nicks(x)}} :
           canonical_first \in {canonicalize_name(first_name)} })

\* ------------------------------------------------------------------------
\* Similarity score (rapidfuzz fuzz.token_sort_ratio / 100.0)
\* ------------------------------------------------------------------------

RECURSIVE TextLess(_, _)
\* a < b for two texts, compared code point by code point
TextLess(a, b) ==
  \E x \in {a}, y \in {b} :
    IF y = <<>> THEN FALSE
    ELSE IF x = <<>> THEN TRUE
    ELSE IF Head(x) = Head(y) THEN TextLess(Tail(x), Tail(y))
    ELSE CharRank(Head(x)) < CharRank(Head(y))

RECURSIVE InsertToken(_, _)
InsertToken(sorted, tok) ==
  Only({ IF xs = <<>> THEN <<t>>
         ELSE IF TextLess(t, Head(xs)) THEN <<t>> \o xs
         ELSE <<Head(xs)>> \o InsertToken(Tail(xs), t) :
           xs \in {sorted}, t \in {tok} })

RECURSIVE SortTokens(_)
\* sorted(tokens)
SortTokens(tokens) ==
  Only({ IF t = <<>> THEN <<>>
         ELSE InsertToken(SortTokens(SubSeq(t, 1, Len(t) - 1)), t[Len(t)]) :
           t \in {tokens} })

Max(x, y) ==
  IF x >= y THEN x ELSE y

RECURSIVE LcsRow(_, _, _, _, _)
\* One row of the longest-common-subsequence table: prev[j + 1] is the
\* length for a[1..i-1] and b[1..j], cur[j + 1] the one for a[1..i].
LcsRow(ai, b, prev, j, cur) ==
  IF j > Len(b) THEN cur
  ELSE Only({ LcsRow(ai, b, prev, j + 1, next) :
               next \in {Append(cur, IF ai = b[j] THEN prev[j] + 1
                                     ELSE Max(prev[j + 1], cur[j]))} })

RECURSIVE LcsRows(_, _, _, _)
LcsRows(a, b, i, prev) ==
  IF i > Len(a) THEN prev[Len(b) + 1]
  ELSE Only({ LcsRows(a, b, i + 1, row) :
               row \in {LcsRow(a[i], b, prev, 1, <<0>>)} })

\* length of the longest common subsequence of a and b
LcsLen(a, b) ==
  Only({ LcsRows(x, y, 1, [j \in 1..(Len(y) + 1) |-> 0]) :
           x \in {a}, y \in {b} })

\* A score or confidence is the exact fraction num / den (den > 0).
Frac(n, d) ==
  [num |-> n, den |-> d]

\* x >= n / d
FracGE(x, n, d) ==
  x.num * d >= n * x.den

\* x * (n / d)
FracMul(x, n, d) ==
  [num |-> x.num * n, den |-> x.den * d]

\* x = y as numbers
FracEq(x, y) ==
  x.num * y.den = y.num * x.den

\* fuzz.token_sort_ratio(a, b) / 100.0: the words of each text sorted and
\* joined by one space, then the normalized indel similarity
\* 2 * lcs / (len + len) of the two results (1 when both are empty).
token_sort_ratio(a, b) ==
  Only({ IF Len(sa) + Len(sb) = 0 THEN Frac(1, 1)
         ELSE Frac(2 * LcsLen(sa, sb), Len(sa) + Len(sb)) :
           sa \in {Join(SortTokens(Split(a)))},
           sb \in {Join(SortTokens(Split(b)))} })

\* ------------------------------------------------------------------------
\* MatchResolver
\* ------------------------------------------------------------------------

\* rapidfuzz is installed in the deployment the model describes
FUZZY_MATCHING_AVAILABLE == TRUE

\* f"{candidate['node']['firstName']} {candidate['node']['lastName']}"
CandidateName(c) ==
  c.firstName \o <<" ">> \o c.lastName

\* the fuzzy score the code computes for a candidate against a target
FuzzyScore(target_name, c) ==
  token_sort_ratio(canonicalize_name(target_name),
                   canonicalize_name(CandidateName(c)))

RECURSIVE ScoredCandidates(_, _)
\* each candidate with its score, in the order of the list
ScoredCandidates(target_name, candidates) ==
  Only({ IF cs = <<>> THEN <<>>
         ELSE Only({ <<[candidate |-> Head(cs), score |-> score]>>
                       \o ScoredCandidates(t, Tail(cs)) :
                       score \in {FuzzyScore(t, Head(cs))} }) :
           t \in {target_name}, cs \in {candidates} })

RECURSIVE InsertScored(_, _)
\* insertion keeping the list sorted by descending score, equal scores in
\* their original order (list.sort(reverse=True) is stable)
InsertScored(sorted, x) ==
  Only({ IF xs = <<>> THEN <<e>>
         ELSE IF FracGE(Head(xs).score, e.score.num, e.score.den)
              THEN <<Head(xs)>> \o InsertScored(Tail(xs), e)
              ELSE <<e>> \o xs :
           xs \in {sorted}, e \in {x} })

RECURSIVE SortScored(_)
SortScored(xs) ==
  Only({ IF t = <<>> THEN <<>>
         ELSE InsertScored(SortScored(SubSeq(t, 1, Len(t) - 1)), t[Len(t)]) :
           t \in {xs} })

\* RMP._fuzzy_match_candidates
fuzzy_match_candidates(target_name, candidates) ==
  IF ~FUZZY_MATCHING_AVAILABLE \/ candidates = <<>> THEN candidates
  ELSE Only({ [i \in 1..Len(sorted) |-> sorted[i].candidate] :
                sorted \in {SortScored(
                  SelectSeq(ScoredCandidates(target_name, candidates),
                            LAMBDA x : FracGE(x.score, 85, 100)))} })

\* the candidates the nickname loop of _enhanced_match_candidates keeps
NicknameMatches(target_name, candidates) ==
  Only({ IF cs = <<>> \/ Len(name_parts) < 2 THEN <<>>
         ELSE Only({ SelectSeq(cs, LAMBDA c :
                       /\ canonicalize_name(c.firstName) \in first_variants
                       /\ canonicalize_name(c.lastName) = target_last_clean) :
                       first_variants \in {get_name_variants(name_parts[1])},
                       target_last_clean \in
                         {canonicalize_name(Join(Tail(name_parts)))} }) :
           name_parts \in {Split(Strip(target_name))}, cs \in {candidates} })

\* RMP._enhanced_match_candidates
enhanced_match_candidates(target_name, candidates) ==
  IF candidates = <<>> THEN <<>>
  ELSE IF Len(Split(Strip(target_name))) < 2 THEN <<>>
  ELSE Only({ IF matched_candidates = <<>> /\ FUZZY_MATCHING_AVAILABLE
              THEN Only({ IF fuzzy_matches # <<>>
                          THEN <<fuzzy_matches[1]>> ELSE <<>> :
                            fuzzy_matches \in
                              {fuzzy_match_candidates(target_name, candidates)} })
              ELSE matched_candidates :
                matched_candidates \in {NicknameMatches(target_name, candidates)} })

\* thresholds that accept from the review threshold on
Recommendation_accept_from_review(confidence_score) ==
  IF FracGE(confidence_score, 75, 100) THEN "accept"
  ELSE "reject"

\* the thresholds of the recommendation, as in the code
Recommendation(confidence_score) ==
  IF FracGE(confidence_score, 90, 100) THEN "accept"
  ELSE IF FracGE(confidence_score, 75, 100) THEN "review"
  ELSE "reject"

\* a quality check that compares the last tokens of names of any length
validate_match_quality_any_last_token(target_name, candidate_name, score) ==
  Only({
    LET structure == Len(target_words) # Len(candidate_words)
        lastname == /\ Len(target_words) >= 1
                    /\ Len(candidate_words) >= 1
                    /\ target_words[Len(target_words)]
                         # candidate_words[Len(candidate_words)]
        low == ~FracGE(s, 85, 100)
        c1 == IF structure THEN FracMul(s, 9, 10) ELSE s
        c2 == IF lastname THEN FracMul(c1, 7, 10) ELSE c1
        c3 == IF low THEN FracMul(c2, 8, 10) ELSE c2
    IN  IF target_canonical = candidate_canonical
        THEN [confidence |-> Frac(1, 1), issues |-> <<>>,
              match_type |-> "exact", recommended_action |-> "accept"]
        ELSE [confidence |-> c3,
              issues |-> (IF structure THEN <<"different_name_structure">> ELSE <<>>)
                         \o (IF lastname THEN <<"different_last_name">> ELSE <<>>)
                         \o (IF low THEN <<"low_similarity_score">> ELSE <<>>),
              match_type |-> IF FracGE(s, 1, 1) THEN "nickname" ELSE "fuzzy",
              recommended_action |-> Recommendation(c3)] :
      target_canonical \in {canonicalize_name(target_name)},
      candidate_canonical \in {canonicalize_name(candidate_name)},
      target_words \in {Split(canonicalize_name(target_name))},
      candidate_words \in {Split(canonicalize_name(candidate_name))},
      s \in {score} })

\* RMP._validate_match_quality
validate_match_quality(target_name, candidate_name, score) ==
  Only({
    LET structure == Len(target_words) # Len(candidate_words)
        lastname == /\ Len(target_words) >= 2
                    /\ Len(candidate_words) >= 2
                    /\ target_words[Len(target_words)]
                         # candidate_words[Len(candidate_words)]
        low == ~FracGE(s, 85, 100)
        c1 == IF structure THEN FracMul(s, 9, 10) ELSE s
        c2 == IF lastname THEN FracMul(c1, 7, 10) ELSE c1
        c3 == IF low THEN FracMul(c2, 8, 10) ELSE c2
    IN  IF target_canonical = candidate_canonical
        THEN [confidence |-> Frac(1, 1), issues |-> <<>>,
              match_type |-> "exact", recommended_action |-> "accept"]
        ELSE [confidence |-> c3,
              issues |-> (IF structure THEN <<"different_name_structure">> ELSE <<>>)
                         \o (IF lastname THEN <<"different_last_name">> ELSE <<>>)
                         \o (IF low THEN <<"low_similarity_score">> ELSE <<>>),
              match_type |-> IF FracGE(s, 1, 1) THEN "nickname" ELSE "fuzzy",
              recommended_action |-> Recommendation(c3)] :
      target_canonical \in {canonicalize_name(target_name)},
      candidate_canonical \in {canonicalize_name(candidate_name)},
      target_words \in {Split(canonicalize_name(target_name))},
      candidate_words \in {Split(canonicalize_name(candidate_name))},
      s \in {score} })

\* ------------------------------------------------------------------------
\* Candidate records and validated-data extraction
\* ------------------------------------------------------------------------

\* An optional value (a nullable column, a possibly null JSON field) is
\* <<>> when absent and <<v>> when present.  Ratings are in tenths (4.5 is
\* 45), would-take-again in percent points.
Null == <<>>

Some(v) == <<v>>

RMP_BASE_URL == "https://www.ratemyprofessors.com"

Digits ==
  <<"0","1","2","3","4","5","6","7","8","9">>

RECURSIVE Str(_)
\* str(n) for an integer n >= 0
Str(n) ==
  IF n < 10 THEN <<Digits[n + 1]>>
  ELSE Str(n \div 10) \o <<Digits[(n % 10) + 1]>>

\* str(n) for any integer n
StrInt(n) ==
  IF n < 0 THEN <<"-">> \o Str(0 - n) ELSE Str(n)

\* str.isdigit()
isdigit(text) ==
  /\ text # <<>>
  /\ \A i \in 1..Len(text) : \E d \in 1..10 : Digits[d] = text[i]

RECURSIVE ParseInt(_)
\* int(text) for a text of digits
ParseInt(text) ==
  IF text = <<>> THEN 0
  ELSE 10 * ParseInt(SubSeq(text, 1, Len(text) - 1))
       + ((CHOOSE d \in 1..10 : Digits[d] = text[Len(text)]) - 1)

\* f"{RMP_BASE_URL}/professor/{id}", id being the text put after the slash
ProfileLink(id) ==
  [base |-> RMP_BASE_URL, path |-> "/professor/", id |-> id]

\* one edge of the provider's answer (the fields of its "node")
Candidate(first, last, legacy, rating, difficulty, takeAgain) ==
  [firstName |-> first, lastName |-> last, legacyId |-> legacy,
   avgRating |-> rating, avgDifficulty |-> difficulty,
   wouldTakeAgainPercent |-> takeAgain]

\* the four enrichment columns of a professor row
Enrichment(score, diff, takeAgain, link) ==
  [RMP_score |-> score, RMP_diff |-> diff,
   RMP_would_take_again |-> takeAgain, RMP_link |-> link]

NoEnrichment == Enrichment(Null, Null, Null, Null)

\* a rating or difficulty: absent is stored as 0.0, a value outside
\* [0, 5] rejects the candidate
RatingOk(x) ==
  x = Null \/ (0 <= x[1] /\ x[1] <= 50)

RatingValue(x) ==
  IF x = Null THEN Some(0) ELSE x

\* an extraction that stores whatever rating and difficulty the candidate
\* carries
validate_and_extract_rmp_data_no_range(node) ==
  IF node.legacyId = Null THEN [ok |-> FALSE, data |-> NoEnrichment]
  ELSE IF ~isdigit(StrInt(node.legacyId[1]))
  THEN [ok |-> FALSE, data |-> NoEnrichment]
  ELSE LET w == node.wouldTakeAgainPercent
           would_take_again_value ==
             IF w # Null /\ -1 <= w[1] /\ w[1] <= 100 THEN w ELSE Null
       IN  [ok |-> TRUE,
            data |-> Enrichment(RatingValue(node.avgRating),
                                RatingValue(node.avgDifficulty),
                                would_take_again_value,
                                Some(ProfileLink(Str(node.legacyId[1]))))]

\* an extraction that takes only percentages, 0 to 100, as would-take-again
validate_and_extract_rmp_data_percent_only(node) ==
  IF node.legacyId = Null THEN [ok |-> FALSE, data |-> NoEnrichment]
  ELSE IF ~isdigit(StrInt(node.legacyId[1]))
  THEN [ok |-> FALSE, data |-> NoEnrichment]
  ELSE IF ~RatingOk(node.avgRating) THEN [ok |-> FALSE, data |-> NoEnrichment]
  ELSE IF ~RatingOk(node.avgDifficulty) THEN [ok |-> FALSE, data |-> NoEnrichment]
  ELSE LET w == node.wouldTakeAgainPercent
           would_take_again_value ==
             IF w # Null /\ 0 <= w[1] /\ w[1] <= 100 THEN w ELSE Null
       IN  [ok |-> TRUE,
            data |-> Enrichment(RatingValue(node.avgRating),
                                RatingValue(node.avgDifficulty),
                                would_take_again_value,
                                Some(ProfileLink(Str(node.legacyId[1]))))]

\* RMP._validate_and_extract_rmp_data: [ok |-> FALSE] for a rejected
\* candidate (the method returns None), else the columns to write.  A
\* would-take-again value outside [-1, 100] is stored as null and the
\* candidate is kept.
validate_and_extract_rmp_data(node) ==
  IF node.legacyId = Null THEN [ok |-> FALSE, data |-> NoEnrichment]
  ELSE IF ~isdigit(StrInt(node.legacyId[1]))
  THEN [ok |-> FALSE, data |-> NoEnrichment]
  ELSE IF ~RatingOk(node.avgRating) THEN [ok |-> FALSE, data |-> NoEnrichment]
  ELSE IF ~RatingOk(node.avgDifficulty) THEN [ok |-> FALSE, data |-> NoEnrichment]
  ELSE LET w == node.wouldTakeAgainPercent
           would_take_again_value ==
             IF w # Null /\ -1 <= w[1] /\ w[1] <= 100 THEN w ELSE Null
       IN  [ok |-> TRUE,
            data |-> Enrichment(RatingValue(node.avgRating),
                                RatingValue(node.avgDifficulty),
                                would_take_again_value,
                                Some(ProfileLink(Str(node.legacyId[1]))))]

\* ------------------------------------------------------------------------
\* ResultCache
\* ------------------------------------------------------------------------

\* a dict is a function whose domain is the set of its keys
DictSet(f, k, v) ==
  [x \in (DOMAIN f) \cup {k} |-> IF x = k THEN v ELSE f[x]]

DictDel(f, k) ==
  IF (DOMAIN f) \ {k} = {} THEN <<>>
  ELSE [x \in (DOMAIN f) \ {k} |-> f[x]]

\* default_cache of _load_cache
default_cache ==
  [positive |-> <<>>, negative |-> <<>>, manual |-> <<>>]

MULTIPROCESS_POOL_SIZE == 5

POSITIVE_TTL_DAYS == 180

NEGATIVE_TTL_DAYS == 14

\* RMP._get_cache_key
get_cache_key(professor_name) ==
  Strip(Lower(professor_name))

\* RMP._is_cache_valid at time t (in days)
is_cache_valid(cache_entry, ttl_days, t) ==
  t - cache_entry.timestamp < ttl_days

\* what a lookup returns: a list, or None
Hit(d) == [hit |-> TRUE, data |-> d]

Absent == [hit |-> FALSE, data |-> <<>>]

\* a lookup that consults the positive and negative tiers before the manual
\* one
get_cached_result_manual_last(c, professor_name, t) ==
  LET cache_key == get_cache_key(professor_name)
      posValid == /\ cache_key \in DOMAIN c.positive
                  /\ is_cache_valid(c.positive[cache_key], POSITIVE_TTL_DAYS, t)
      negValid == /\ cache_key \in DOMAIN c.negative
                  /\ is_cache_valid(c.negative[cache_key], NEGATIVE_TTL_DAYS, t)
  IN  IF posValid
      THEN [ret |-> Hit(c.positive[cache_key].data), cache |-> c]
      ELSE IF negValid
      THEN [ret |-> Hit(<<>>), cache |-> c]
      ELSE IF cache_key \in DOMAIN c.manual
      THEN [ret |-> Hit(c.manual[cache_key].data), cache |-> c]
      ELSE [ret |-> Absent, cache |-> c]

\* RMP._get_cached_result at time t: the value returned and the cache the
\* call leaves in memory (expired entries are deleted, nothing is saved)
get_cached_result(c, professor_name, t) ==
  LET cache_key == get_cache_key(professor_name)
      posValid == /\ cache_key \in DOMAIN c.positive
                  /\ is_cache_valid(c.positive[cache_key], POSITIVE_TTL_DAYS, t)
      c1 == IF cache_key \in DOMAIN c.positive /\ ~posValid
            THEN [c EXCEPT !.positive = DictDel(@, cache_key)]
            ELSE c
      negValid == /\ cache_key \in DOMAIN c1.negative
                  /\ is_cache_valid(c1.negative[cache_key], NEGATIVE_TTL_DAYS, t)
      c2 == IF cache_key \in DOMAIN c1.negative /\ ~negValid
            THEN [c1 EXCEPT !.negative = DictDel(@, cache_key)]
            ELSE c1
  IN  IF cache_key \in DOMAIN c.manual
      THEN [ret |-> Hit(c.manual[cache_key].data), cache |-> c]
      ELSE IF posValid
      THEN [ret |-> Hit(c.positive[cache_key].data), cache |-> c]
      ELSE IF negValid
      THEN [ret |-> Hit(<<>>), cache |-> c1]
      ELSE [ret |-> Absent, cache |-> c2]

\* RMP._cache_result at time t, before the save
cache_result(c, professor_name, result, t) ==
  LET cache_key == get_cache_key(professor_name)
  IN  IF result # <<>>
      THEN [c EXCEPT !.positive =
              DictSet(@, cache_key, [data |-> result, timestamp |-> t])]
      ELSE [c EXCEPT !.negative =
              DictSet(@, cache_key, [timestamp |-> t])]

\* RMP._add_manual_cache_entry at time t, before the save
add_manual_cache_entry(c, professor_name, rmp_data, t) ==
  LET cache_key == get_cache_key(professor_name)
      candidate_data ==
        << Candidate(rmp_data.firstName, rmp_data.lastName, rmp_data.legacyId,
                     rmp_data.avgRating, rmp_data.avgDifficulty,
                     rmp_data.wouldTakeAgainPercent) >>
  IN  [c EXCEPT
         !.manual = DictSet(@, cache_key,
                            [data |-> candidate_data, timestamp |-> t,
                             source |-> "manual"]),
         !.negative = DictDel(@, cache_key)]

\* RMP._save_cache: the content of the file after json.dump(self._cache, f)
save_cache(c) ==
  c

\* ------------------------------------------------------------------------
\* CandidateSearchClient
\* ------------------------------------------------------------------------

\* what gqlClient.execute does: it raises, or returns the edges found
ProviderRaises == [error |-> TRUE, edges |-> <<>>]

ProviderReturns(edges) == [error |-> FALSE, edges |-> edges]

\* the text sent to the provider: the tokens after the first, or the whole
\* name when it has one token
SearchText(professor_name) ==
  LET name_parts == Split(Strip(professor_name))
  IN  IF Len(name_parts) >= 2 THEN Join(Tail(name_parts)) ELSE professor_name

\* a search that stores the provider's answer under the truncated query
get_prof_by_school_and_name_query_key(c, file, professor_name, t, reply) ==
  LET cached == get_cached_result(c, professor_name, t)
      stored == cache_result(cached.cache, SearchText(professor_name),
                             reply.edges, t)
  IN  IF cached.ret.hit
      THEN [raised |-> FALSE, ret |-> cached.ret.data, cache |-> cached.cache,
            file |-> file, calls |-> 0]
      ELSE IF reply.error
      THEN [raised |-> TRUE, ret |-> <<>>, cache |-> cached.cache,
            file |-> file, calls |-> 1]
      ELSE [raised |-> FALSE, ret |-> reply.edges, cache |-> stored,
            file |-> save_cache(stored), calls |-> 1]

\* RMP.get_prof_by_school_and_name on the cache c at time t, the provider
\* answering reply if it is called: whether the call raised, the list
\* returned, the cache left in memory, the cache file, and the number of
\* provider calls made
get_prof_by_school_and_name(c, file, professor_name, t, reply) ==
  LET cached == get_cached_result(c, professor_name, t)
      stored == cache_result(cached.cache, professor_name, reply.edges, t)
  IN  IF cached.ret.hit
      THEN [raised |-> FALSE, ret |-> cached.ret.data, cache |-> cached.cache,
            file |-> file, calls |-> 0]
      ELSE IF reply.error
      THEN [raised |-> TRUE, ret |-> <<>>, cache |-> cached.cache,
            file |-> file, calls |-> 1]
      ELSE [raised |-> FALSE, ret |-> reply.edges, cache |-> stored,
            file |-> save_cache(stored), calls |-> 1]

\* ------------------------------------------------------------------------
\* Resolution of one professor
\* ------------------------------------------------------------------------

\* the exact-match filter: the trimmed firstName + " " + lastName equals the
\* professor's name
ExactMatches(prof_name, profMatches) ==
  SelectSeq(profMatches, LAMBDA x : Strip(CandidateName(x)) = prof_name)

\* whether _enhanced_match_candidates goes on to the fuzzy tier: it has
\* returned before for an empty list and for a target name of one token,
\* and calls _fuzzy_match_candidates when the nickname loop kept nothing
fuzzy_attempted(target_name, candidates) ==
  /\ candidates # <<>>
  /\ Len(Split(Strip(target_name))) >= 2
  /\ NicknameMatches(target_name, candidates) = <<>>
  /\ FUZZY_MATCHING_AVAILABLE

\* the tiers of update_prof_by_name on the list the search returned: what
\* the exact filter and the nickname loop kept, whether the fuzzy tier was
\* attempted, and what _enhanced_match_candidates returned (nothing when it
\* is not called)
match_tiers(prof_name, profMatches) ==
  Only({ [exact_matches |-> exact_matches,
          nickname_matches |-> IF exact_matches = <<>>
                               THEN NicknameMatches(prof_name, profMatches)
                               ELSE <<>>,
          fuzzy_attempted |-> /\ exact_matches = <<>>
                              /\ fuzzy_attempted(prof_name, profMatches),
          enhanced_matches |-> IF exact_matches = <<>>
                               THEN enhanced_match_candidates(prof_name, profMatches)
                               ELSE <<>>] :
           exact_matches \in {ExactMatches(prof_name, profMatches)} })

\* the quality check update_prof_by_name makes on the best enhanced match:
\* the enhanced matches are kept on accept and dropped on review and reject
QualityGate(prof_name, found, enhanced_matches) ==
  Only({ [tier |-> IF NicknameMatches(prof_name, found) # <<>>
                   THEN "nickname" ELSE "fuzzy",
          quality |-> Some(quality_check),
          profMatches |-> IF quality_check.recommended_action = "accept"
                          THEN enhanced_matches ELSE <<>>] :
           quality_check \in
             {validate_match_quality(prof_name,
                                     CandidateName(enhanced_matches[1]),
                                     FuzzyScore(prof_name, enhanced_matches[1]))} })

\* a matching that tries the nickname and fuzzy tiers before the exact filter
MatchDecision_enhanced_first(prof_name, found) ==
  Only({ IF enhanced_matches # <<>>
         THEN QualityGate(prof_name, found, enhanced_matches)
         ELSE IF exact_matches # <<>>
         THEN [tier |-> "exact", quality |-> Null, profMatches |-> exact_matches]
         ELSE [tier |-> "none", quality |-> Null, profMatches |-> <<>>] :
           exact_matches \in {ExactMatches(prof_name, found)},
           enhanced_matches \in {enhanced_match_candidates(prof_name, found)} })

\* the matching part of update_prof_by_name on the list the search returned:
\* the tier that chose, the quality check made (Null when none is) and the
\* final profMatches
MatchDecision(prof_name, found) ==
  Only({ IF exact_matches # <<>>
         THEN [tier |-> "exact", quality |-> Null, profMatches |-> exact_matches]
         ELSE Only({ IF enhanced_matches = <<>>
                     THEN [tier |-> "none", quality |-> Null, profMatches |-> <<>>]
                     ELSE QualityGate(prof_name, found, enhanced_matches) :
                       enhanced_matches \in
                         {enhanced_match_candidates(prof_name, found)} }) :
           exact_matches \in {ExactMatches(prof_name, found)} })

\* the columns of a professor row that an UPDATE with rmp_data sets
UpdateRow(row, rmp_data) ==
  [row EXCEPT !.RMP_score = rmp_data.RMP_score,
              !.RMP_diff = rmp_data.RMP_diff,
              !.RMP_would_take_again = rmp_data.RMP_would_take_again,
              !.RMP_link = rmp_data.RMP_link]

\* what one call of update_prof_by_name did
Outcome(result, raised, row, decision, found, calls) ==
  [result |-> result, raised |-> raised, row |-> row, tier |-> decision.tier,
   quality |-> decision.quality, profMatches |-> decision.profMatches,
   found |-> found, calls |-> calls]

NoDecision ==
  [tier |-> "none", quality |-> Null, profMatches |-> <<>>]

\* a resolution that clears the enrichment of a professor it finds no match
\* for
update_prof_by_name_clear_on_miss(row, prof_name, search, dbOk) ==
  IF search.raised
  THEN Outcome("provider_error", TRUE, row, NoDecision, <<>>, search.calls)
  ELSE Only({
         IF Len(decision.profMatches) = 0
         THEN Outcome("failed_to_find", FALSE, UpdateRow(row, NoEnrichment),
                      decision, search.ret, search.calls)
         ELSE IF Len(decision.profMatches) > 1
         THEN Outcome("ambiguous", FALSE, row, decision, search.ret, search.calls)
         ELSE Only({
                IF ~rmp_data.ok
                THEN Outcome("invalid", FALSE, row, decision, search.ret, search.calls)
                ELSE IF ~dbOk
                THEN Outcome("db_error", FALSE, row, decision,
                             search.ret, search.calls)
                ELSE Outcome("updated", FALSE, UpdateRow(row, rmp_data.data),
                             decision, search.ret, search.calls) :
                  rmp_data \in {validate_and_extract_rmp_data(decision.profMatches[1])} }) :
           decision \in {MatchDecision(prof_name, search.ret)} })

\* a write that is lost when the commit fails
update_prof_by_name_no_rollback(row, prof_name, search, dbOk) ==
  IF search.raised
  THEN Outcome("provider_error", TRUE, row, NoDecision, <<>>, search.calls)
  ELSE Only({
         IF Len(decision.profMatches) = 0
         THEN Outcome("failed_to_find", FALSE, row, decision, search.ret, search.calls)
         ELSE IF Len(decision.profMatches) > 1
         THEN Outcome("ambiguous", FALSE, row, decision, search.ret, search.calls)
         ELSE Only({
                IF ~rmp_data.ok
                THEN Outcome("invalid", FALSE, row, decision, search.ret, search.calls)
                ELSE IF ~dbOk
                THEN Outcome("db_error", FALSE, UpdateRow(row, rmp_data.data), decision,
                             search.ret, search.calls)
                ELSE Outcome("updated", FALSE, UpdateRow(row, rmp_data.data),
                             decision, search.ret, search.calls) :
                  rmp_data \in {validate_and_extract_rmp_data(decision.profMatches[1])} }) :
           decision \in {MatchDecision(prof_name, search.ret)} })

\* a resolution that takes the first candidate of an ambiguous pool
update_prof_by_name_first_of_many(row, prof_name, search, dbOk) ==
  IF search.raised
  THEN Outcome("provider_error", TRUE, row, NoDecision, <<>>, search.calls)
  ELSE Only({
         IF Len(decision.profMatches) = 0
         THEN Outcome("failed_to_find", FALSE, row, decision, search.ret, search.calls)
         ELSE Only({
                IF ~rmp_data.ok
                THEN Outcome("invalid", FALSE, row, decision, search.ret, search.calls)
                ELSE IF ~dbOk
                THEN Outcome("db_error", FALSE, row, decision,
                             search.ret, search.calls)
                ELSE Outcome("updated", FALSE, UpdateRow(row, rmp_data.data),
                             decision, search.ret, search.calls) :
                  rmp_data \in {validate_and_extract_rmp_data(decision.profMatches[1])} }) :
           decision \in {MatchDecision(prof_name, search.ret)} })

\* a resolution that writes the best candidate whatever the recommendation
update_prof_by_name_any_recommendation(row, prof_name, search, dbOk) ==
  IF search.raised
  THEN Outcome("provider_error", TRUE, row, NoDecision, <<>>, search.calls)
  ELSE Only({
         IF Len(pool) = 0
         THEN Outcome("failed_to_find", FALSE, row, decision, search.ret, search.calls)
         ELSE IF Len(pool) > 1
         THEN Outcome("ambiguous", FALSE, row, decision, search.ret, search.calls)
         ELSE Only({
                IF ~rmp_data.ok
                THEN Outcome("invalid", FALSE, row, decision, search.ret, search.calls)
                ELSE IF ~dbOk
                THEN Outcome("db_error", FALSE, row, decision,
                             search.ret, search.calls)
                ELSE Outcome("updated", FALSE, UpdateRow(row, rmp_data.data),
                             decision, search.ret, search.calls) :
                  rmp_data \in {validate_and_extract_rmp_data(pool[1])} }) :
           decision \in {MatchDecision(prof_name, search.ret)},
           pool \in {IF MatchDecision(prof_name, search.ret).tier \in {"nickname", "fuzzy"}
                     THEN enhanced_match_candidates(prof_name, search.ret)
                     ELSE MatchDecision(prof_name, search.ret).profMatches} })

\* RMP.update_prof_by_name after its search: search is what
\* get_prof_by_school_and_name did, row the professor's row in the store,
\* dbOk whether the UPDATE and its commit succeed.
\* An exception of the search is not caught here: the call raises.  A failed
\* write is rolled back and the call returns.
update_prof_by_name(row, prof_name, search, dbOk) ==
  IF search.raised
  THEN Outcome("provider_error", TRUE, row, NoDecision, <<>>, search.calls)
  ELSE Only({
         IF Len(decision.profMatches) = 0
         THEN Outcome("failed_to_find", FALSE, row, decision, search.ret, search.calls)
         ELSE IF Len(decision.profMatches) > 1
         THEN Outcome("ambiguous", FALSE, row, decision, search.ret, search.calls)
         ELSE Only({
                IF ~rmp_data.ok
                THEN Outcome("invalid", FALSE, row, decision, search.ret, search.calls)
                ELSE IF ~dbOk
                THEN Outcome("db_error", FALSE, row, decision,
                             search.ret, search.calls)
                ELSE Outcome("updated", FALSE, UpdateRow(row, rmp_data.data),
                             decision, search.ret, search.calls) :
                  rmp_data \in {validate_and_extract_rmp_data(decision.profMatches[1])} }) :
           decision \in {MatchDecision(prof_name, search.ret)} })

\* ------------------------------------------------------------------------
\* The names and candidates the model runs on
\* ------------------------------------------------------------------------

\* "Jane Doe"
JaneDoe ==
  <<"J","a","n","e"," ","D","o","e">>

\* " jane doe"
JaneDoeLoose ==
  <<" ","j","a","n","e"," ","d","o","e">>

\* "Bob Smith"
BobSmith ==
  <<"B","o","b"," ","S","m","i","t","h">>

\* "Jon Smith"
JonSmith ==
  <<"J","o","n"," ","S","m","i","t","h">>

cJaneDoe ==
  Candidate(<<"J","a","n","e">>, <<"D","o","e">>,
            Some(101), Some(45), Some(30), Some(80))

cJaneDoeTwin ==
  Candidate(<<"J","a","n","e">>, <<"D","o","e">>,
            Some(102), Some(20), Some(41), Some(-1))

cJaneDoyle ==
  Candidate(<<"J","a","n","e">>, <<"D","o","y","l","e">>,
            Some(103), Some(38), Some(25), Null)

cJaneDoeNoId ==
  Candidate(<<"J","a","n","e">>, <<"D","o","e">>,
            Null, Some(45), Some(30), Some(80))

\* Jane Doe with a rating above 5
cJaneDoeBadRating ==
  Candidate(<<"J","a","n","e">>, <<"D","o","e">>,
            Some(104), Some(51), Some(30), Some(80))

\* Jane Doe with a difficulty below 0
cJaneDoeBadDiff ==
  Candidate(<<"J","a","n","e">>, <<"D","o","e">>,
            Some(105), Some(40), Some(-1), Some(80))

\* Jane Doe with a legacy id that is not all digits ("-7")
cJaneDoeBadId ==
  Candidate(<<"J","a","n","e">>, <<"D","o","e">>,
            Some(-7), Some(40), Some(30), Some(80))

\* Jane Doe with a would-take-again above 100
cJaneDoeBadTakeAgain ==
  Candidate(<<"J","a","n","e">>, <<"D","o","e">>,
            Some(106), Some(40), Some(30), Some(101))

\* Jane Doe with no ratings yet and would-take-again -1 ("no data")
cJaneDoeUnrated ==
  Candidate(<<"J","a","n","e">>, <<"D","o","e">>,
            Some(107), Null, Null, Some(-1))

cRobertSmith ==
  Candidate(<<"R","o","b","e","r","t">>, <<"S","m","i","t","h">>,
            Some(201), Some(33), Some(28), Some(60))

cBobSmithLower ==
  Candidate(<<"b","o","b">>, <<"s","m","i","t","h">>,
            Some(202), Null, Null, Null)

cJohnSmith ==
  Candidate(<<"J","o","h","n">>, <<"S","m","i","t","h">>,
            Some(301), Some(50), Some(10), Some(100))

cJohnnySmith ==
  Candidate(<<"J","o","h","n","n","y">>, <<"S","m","i","t","h">>,
            Some(302), Some(12), Some(48), Some(5))

cJonSmyth ==
  Candidate(<<"J","o","n">>, <<"S","m","y","t","h">>,
            Some(303), Some(27), Some(33), Some(101))

\* Jon Smith with would-take-again -1 ("no data")
cJonSmith ==
  Candidate(<<"J","o","n">>, <<"S","m","i","t","h">>,
            Some(304), Some(35), Some(20), Some(-1))

\* ------------------------------------------------------------------------
\* DuplicateMerger
\* ------------------------------------------------------------------------

\* the columns of the distribution table
DistributionColumns ==
  {"id", "class_id", "instructor_id"}

\* Distribution.<column>: the class has the attribute when the table has the
\* column, and the access raises AttributeError otherwise
HasColumn(column) ==
  column \in DistributionColumns

\* a row of the distribution table owned by the professor instructor_id
\* (Null for a class with no professor listed)
DistRow(id, class_id, instructor_id) ==
  [id |-> id, class_id |-> class_id, instructor_id |-> instructor_id]

\* session.query(Distribution).filter(Distribution.<column> == prof_id)
DistributionsOf(rel, column, prof_id) ==
  {d \in DOMAIN rel : rel[d][column] = Some(prof_id)}

\* the truth value Python gives a nullable Float column: None and 0.0 are
\* false
Truthy(x) ==
  x # Null /\ x[1] # 0

RECURSIVE IdsInOrder(_)
\* the ids of session.query(Professor).all(), in the order the rows are read
IdsInOrder(ids) ==
  IF ids = {} THEN <<>>
  ELSE LET first == CHOOSE i \in ids : \A j \in ids : i <= j
       IN  <<first>> \o IdsInOrder(ids \ {first})

RECURSIVE Members(_, _, _)
\* the ids of order whose canonical name is key
Members(keys, order, key) ==
  IF order = <<>> THEN <<>>
  ELSE (IF keys[Head(order)] = key THEN <<Head(order)>> ELSE <<>>)
       \o Members(keys, Tail(order), key)

RECURSIVE GroupsFrom(_, _, _)
\* canonical_groups.items(): one group per canonical name, in the order of
\* the first member of each
GroupsFrom(keys, order, rest) ==
  IF rest = <<>> THEN <<>>
  ELSE (IF \E j \in 1..Len(order) :
             /\ keys[order[j]] = keys[Head(rest)]
             /\ order[j] < Head(rest)
        THEN <<>>
        ELSE <<Members(keys, order, keys[Head(rest)])>>)
       \o GroupsFrom(keys, order, Tail(rest))

\* the groups of professor ids by canonical name
CanonicalGroups(table) ==
  Only({ GroupsFrom(keys, order, order) :
           keys \in {[i \in DOMAIN table |-> canonicalize_name(table[i].name)]},
           order \in {IdsInOrder(DOMAIN table)} })

RECURSIVE BestProf(_, _, _, _)
\* the loop that picks best_prof among the members of a group: the member
\* with the highest dist_count * 1000 + (10000 - id), the first of them on a
\* tie, and None (Null) when no score exceeds -1
BestProf(rel, group, best_prof, best_score) ==
  IF group = <<>> THEN best_prof
  ELSE Only({ IF score > best_score
              THEN BestProf(rel, Tail(group), Some(Head(group)), score)
              ELSE BestProf(rel, Tail(group), best_prof, best_score) :
                score \in {Cardinality(DistributionsOf(rel, "professor_id",
                                                       Head(group))) * 1000
                             + (10000 - Head(group))} })

RECURSIVE MergeInto(_, _, _, _)
\* the loop that merges the members of a group into best: their
\* distributions are given to best, their enrichment is copied when theirs
\* is truthy and best's is not, and they are deleted
MergeInto(table, rel, group, best) ==
  IF group = <<>> THEN [profs |-> table, dists |-> rel]
  ELSE IF Head(group) = best THEN MergeInto(table, rel, Tail(group), best)
  ELSE Only({
         MergeInto([i \in (DOMAIN table) \ {prof} |->
                      IF i = best /\ Truthy(table[prof].RMP_score)
                                 /\ ~Truthy(table[best].RMP_score)
                      THEN UpdateRow(table[best], table[prof])
                      ELSE table[i]],
                   [d \in DOMAIN rel |->
                      IF d \in DistributionsOf(rel, "professor_id", prof)
                      THEN [rel[d] EXCEPT !["professor_id"] = Some(best)]
                      ELSE rel[d]],
                   Tail(group), best) :
           prof \in {Head(group)} })

RECURSIVE MergeGroups(_, _, _)
\* the loop over canonical_groups, on the session's pending state
MergeGroups(table, rel, groups) ==
  IF groups = <<>>
  THEN [profs |-> table, dists |-> rel, raised |-> FALSE]
  ELSE IF Len(Head(groups)) <= 1 THEN MergeGroups(table, rel, Tail(groups))
  ELSE IF ~HasColumn("professor_id")
  THEN [profs |-> table, dists |-> rel, raised |-> TRUE]
  ELSE Only({
         IF best_prof = Null
         THEN [profs |-> table, dists |-> rel, raised |-> TRUE]
         ELSE Only({ MergeGroups(m.profs, m.dists, Tail(groups)) :
                       m \in {MergeInto(table, rel, Head(groups),
                                        best_prof[1])} }) :
           best_prof \in {BestProf(rel, Head(groups), Null, -1)} })

\* the number of groups with more than one member
DuplicatesFound(groups) ==
  Cardinality({g \in 1..Len(groups) : Len(groups[g]) > 1})

\* RMP._detect_and_merge_duplicates on the professor table and the
\* distribution table: the tables it leaves, and whether it ended in its
\* except branch (the session rolled back, nothing written).  commitOk tells
\* whether session.commit() succeeds.
detect_and_merge_duplicates(table, rel, commitOk) ==
  Only({ Only({ IF DuplicatesFound(groups) = 0
                THEN [profs |-> table, dists |-> rel, raised |-> FALSE,
                      duplicates_found |-> 0]
                ELSE IF m.raised \/ ~commitOk
                THEN [profs |-> table, dists |-> rel, raised |-> TRUE,
                      duplicates_found |-> DuplicatesFound(groups)]
                ELSE [profs |-> m.profs, dists |-> m.dists, raised |-> FALSE,
                      duplicates_found |-> DuplicatesFound(groups)] :
                  m \in {MergeGroups(table, rel, groups)} }) :
           groups \in {CanonicalGroups(table)} })

\* ------------------------------------------------------------------------
\* EnrichmentOrchestrator
\* ------------------------------------------------------------------------

\* main: the arguments it gives update_profs for the flags --fix-duplicates,
\* --rmp-only and --debug
MainArgs(fix_duplicates_flag, rmp_only, debug) ==
  IF rmp_only
  THEN [fix_duplicates |-> FALSE, skip_rmp_updates |-> FALSE, debug |-> debug]
  ELSE IF fix_duplicates_flag
  THEN [fix_duplicates |-> TRUE, skip_rmp_updates |-> TRUE, debug |-> debug]
  ELSE [fix_duplicates |-> TRUE, skip_rmp_updates |-> FALSE, debug |-> debug]

\* Pool.map's chunksize for n items: the tasks are split in about four
\* chunks per worker
ChunkSize(n) ==
  IF n % (MULTIPROCESS_POOL_SIZE * 4) # 0
  THEN (n \div (MULTIPROCESS_POOL_SIZE * 4)) + 1
  ELSE n \div (MULTIPROCESS_POOL_SIZE * 4)

\* no duplicate pass has run
NoMerge ==
  [ran |-> FALSE, raised |-> FALSE, duplicates_found |-> 0,
   profs |-> <<>>, dists |-> <<>>, commitOk |-> TRUE]

\* ------------------------------------------------------------------------
\* State
\* ------------------------------------------------------------------------

VARIABLES
  now,        \* the clock (time.time()), in days
  cache,      \* RMP._cache of the running process
  cacheFile,  \* the content of rmp_cache.json
  last,       \* the last call made: its name, argument and returned value
  putLog,     \* per cache key, the last _cache_result call: list and time
  manualLog,  \* per cache key, the rmp_data of the last _add_manual_cache_entry
  searchLog,  \* per cache key, the last provider answer a search stored
  profs,      \* the professor table: id -> row
  pc,         \* where the run of update_profs stands
  snapshot,   \* the professors update_profs read, ordered by name
  task,       \* per professor of the snapshot, the state of its pool task
  outcome,    \* per professor of the snapshot, what its task did
  dists,      \* the distribution table: id -> row
  args,       \* the arguments update_profs was called with
  phases,     \* the steps of update_profs that ran, in order
  merged,     \* what the duplicate pass did, and the store it started from
  workerCache,\* per chunk of the map a worker took, the _cache of the copy of
              \* the RMP object the chunk was unpickled with
  provider,   \* the reply of a deterministic provider to each search text
              \* (<<>>: the provider is free to answer anything)
  csv,        \* the content of the CSV file of the manual operations
  listed,     \* the professors the last export wrote, row by row, and the
              \* ids the file was filled with
  commands    \* the number of command lines run so far

cacheVars == <<now, cache, cacheFile, last, putLog, manualLog, searchLog>>

batchVars == <<profs, pc, snapshot, task, outcome, dists, args, phases, merged,
               workerCache>>

outsideVars == <<provider, csv, listed, commands>>

vars == <<now, cache, cacheFile, last, putLog, manualLog, searchLog,
          profs, pc, snapshot, task, outcome, dists, args, phases, merged,
          workerCache, provider, csv, listed, commands>>

Call(op, name, ret, calls) ==
  [op |-> op, name |-> name, ret |-> ret, calls |-> calls]

\* the rmp_data add_manual_rmp_link builds for a professor name and an id
ManualData(name, id) ==
  LET parts == Split(name)
  IN  [legacyId |-> Some(id), avgRating |-> Null, avgDifficulty |-> Null,
       wouldTakeAgainPercent |-> Null,
       firstName |-> IF parts # <<>> THEN parts[1] ELSE <<>>,
       lastName |-> IF Len(parts) > 1 THEN Join(Tail(parts)) ELSE <<>>]

\* the candidate list _add_manual_cache_entry stores for rmp_data
ManualCandidates(rmp_data) ==
  << Candidate(rmp_data.firstName, rmp_data.lastName, rmp_data.legacyId,
               rmp_data.avgRating, rmp_data.avgDifficulty,
               rmp_data.wouldTakeAgainPercent) >>

\* no export has written the CSV file
NoExport ==
  [ids |-> <<>>, filled |-> <<>>]

\* what stands outside a run: no worker holds a copy of the RMP object, the
\* provider is free to answer anything, there is no CSV file and no command
\* line was run
Outside ==
  /\ workerCache = <<>>
  /\ provider = <<>>
  /\ csv = Null
  /\ listed = NoExport
  /\ commands = 0

\* the days the clock can stand at: both sides of each expiry
MaxDay == 180

Days ==
  {d \in {0, 13, 14, 179, 180, 181} : d <= MaxDay}

\* ------------------------------------------------------------------------
\* The cache on its own: put, putManual and get in any order, and time
\* ------------------------------------------------------------------------

CacheNames ==
  {JaneDoe, JaneDoeLoose}

CacheResults ==
  {<<>>, <<cJaneDoe>>}

InitCache ==
  /\ now = 0
  /\ cache = default_cache
  /\ cacheFile = default_cache
  /\ last = Call("start", <<>>, Absent, 0)
  /\ putLog = <<>>
  /\ manualLog = <<>>
  /\ searchLog = <<>>
  /\ profs = <<>>
  /\ pc = "idle"
  /\ snapshot = <<>>
  /\ task = <<>>
  /\ outcome = <<>>
  /\ dists = <<>>
  /\ args = MainArgs(FALSE, TRUE, FALSE)
  /\ phases = <<>>
  /\ merged = NoMerge
  /\ Outside

\* put(name, result)
Put(name, result) ==
  /\ cache' = cache_result(cache, name, result, now)
  /\ cacheFile' = save_cache(cache')
  /\ last' = Call("put", name, Absent, 0)
  /\ putLog' = DictSet(putLog, get_cache_key(name),
                       [data |-> result, timestamp |-> now])
  /\ UNCHANGED <<now, manualLog, searchLog>>
  /\ UNCHANGED batchVars
  /\ UNCHANGED outsideVars

\* putManual(name, rmp_data)
PutManual(name, rmp_data) ==
  /\ cache' = add_manual_cache_entry(cache, name, rmp_data, now)
  /\ cacheFile' = save_cache(cache')
  /\ last' = Call("putManual", name, Absent, 0)
  /\ manualLog' = DictSet(manualLog, get_cache_key(name), rmp_data)
  /\ UNCHANGED <<now, putLog, searchLog>>
  /\ UNCHANGED batchVars
  /\ UNCHANGED outsideVars

\* get(name)
Get(name) ==
  LET cached == get_cached_result(cache, name, now)
  IN  /\ cache' = cached.cache
      /\ last' = Call("get", name, cached.ret, 0)
      /\ UNCHANGED <<now, cacheFile, putLog, manualLog, searchLog>>
      /\ UNCHANGED batchVars
      /\ UNCHANGED outsideVars

\* time passes
Tick(d) ==
  /\ d > now
  /\ now' = d
  /\ last' = Call("tick", <<>>, Absent, 0)
  /\ UNCHANGED <<cache, cacheFile, putLog, manualLog, searchLog>>
  /\ UNCHANGED batchVars
  /\ UNCHANGED outsideVars

NextCache ==
  \/ \E name \in CacheNames, result \in CacheResults : Put(name, result)
  \/ \E name \in CacheNames : PutManual(name, ManualData(name, 7))
  \/ \E name \in CacheNames : Get(name)
  \/ \E d \in Days : Tick(d)

SpecCache == InitCache /\ [][NextCache]_vars

\* ------------------------------------------------------------------------
\* One process searching: search, putManual and time
\* ------------------------------------------------------------------------

SearchNames ==
  {JaneDoe, JaneDoeLoose}

ProviderReplies ==
  {ProviderRaises, ProviderReturns(<<>>), ProviderReturns(<<cJaneDoe>>),
   ProviderReturns(<<cJaneDoe, cJaneDoyle>>)}

\* search(name, school)
Search(name, reply) ==
  LET r == get_prof_by_school_and_name(cache, cacheFile, name, now, reply)
  IN  /\ cache' = r.cache
      /\ cacheFile' = r.file
      /\ last' = Call("search", name,
                      IF r.raised THEN Absent ELSE Hit(r.ret), r.calls)
      /\ searchLog' = IF r.calls = 1 /\ ~r.raised
                      THEN DictSet(searchLog, get_cache_key(name),
                                   [data |-> reply.edges, timestamp |-> now])
                      ELSE searchLog
      /\ UNCHANGED <<now, putLog, manualLog>>
      /\ UNCHANGED batchVars
      /\ UNCHANGED outsideVars

NextSearch ==
  \/ \E name \in SearchNames, reply \in ProviderReplies : Search(name, reply)
  \/ \E name \in SearchNames : PutManual(name, ManualData(name, 7))
  \/ \E d \in Days : Tick(d)

SpecSearch == InitCache /\ [][NextSearch]_vars

\* ------------------------------------------------------------------------
\* A run of update_profs in RMP-only mode: the pool resolves the snapshot
\* ------------------------------------------------------------------------

\* the most professors a run resolves (Pool.map hands over one professor
\* per chunk as long as there are at most 20)
NProfs == 2

\* an enrichment written by an earlier run
PriorEnrichment ==
  Enrichment(Some(30), Some(20), Some(50), Some(ProfileLink(Str(9))))

ProfRow(name, enrichment) ==
  [name |-> name, RMP_score |-> enrichment.RMP_score,
   RMP_diff |-> enrichment.RMP_diff,
   RMP_would_take_again |-> enrichment.RMP_would_take_again,
   RMP_link |-> enrichment.RMP_link]

\* the professor rows the runs are made on, by id
AllProfessors ==
  << ProfRow(JaneDoe, PriorEnrichment),
     ProfRow(BobSmith, NoEnrichment),
     ProfRow(JonSmith, PriorEnrichment) >>

\* the answers the provider may give to the search for a name
ProviderAnswers(name) ==
  IF name = JaneDoe
  THEN { <<>>, <<cJaneDoe>>, <<cJaneDoe, cJaneDoyle>>,
         <<cJaneDoe, cJaneDoeTwin>>, <<cJaneDoeNoId>>,
         <<cJaneDoeBadRating>>, <<cJaneDoeBadDiff>>, <<cJaneDoeBadId>>,
         <<cJaneDoeBadTakeAgain>>, <<cJaneDoeUnrated>> }
  ELSE IF name = BobSmith
  THEN { <<cRobertSmith>>, <<cBobSmithLower>>,
         <<cBobSmithLower, cRobertSmith>> }
  ELSE { <<cJohnSmith>>, <<cJohnnySmith>>, <<cJonSmyth>>,
         <<cJohnnySmith, cJohnSmith>>, <<cJonSmith>> }

RECURSIVE OrderByName(_, _)
\* session.query(Professor).order_by(Professor.name).all() on the rows with
\* the ids given
OrderByName(table, ids) ==
  Only({ IF rest = {} THEN <<>>
         ELSE LET first ==
                    CHOOSE i \in rest :
                      \A j \in rest \ {i} :
                        TextLess(rows[i].name, rows[j].name)
              IN  <<[id |-> first, name |-> rows[first].name]>>
                    \o OrderByName(rows, rest \ {first}) :
           rows \in {table}, rest \in {ids} })

NoOutcome ==
  Outcome("none", FALSE, <<>>, NoDecision, <<>>, 0)

InitBatch ==
  /\ now = 0
  /\ cache = default_cache
  /\ cacheFile = default_cache
  /\ last = Call("start", <<>>, Absent, 0)
  /\ putLog = <<>>
  /\ manualLog = <<>>
  /\ searchLog = <<>>
  /\ \E ids \in SUBSET (1..Len(AllProfessors)) :
       /\ ids # {}
       /\ Cardinality(ids) <= NProfs
       /\ profs = [i \in ids |-> AllProfessors[i]]
  /\ pc = "idle"
  /\ snapshot = <<>>
  /\ task = <<>>
  /\ outcome = <<>>
  /\ dists = <<>>
  /\ args = MainArgs(FALSE, TRUE, FALSE)
  /\ phases = <<>>
  /\ merged = NoMerge
  /\ Outside

\* update_profs, step 1: the duplicate pass when fix_duplicates is set.  The
\* pass catches its own exceptions, so the step always goes on to step 2.
\* The step notes whether the store accepted the commits of the pass.
MergeDuplicates(commitOk) ==
  /\ pc = "idle"
  /\ pc' = "merged"
  /\ IF args.fix_duplicates
     THEN \E r \in {detect_and_merge_duplicates(profs, dists, commitOk)} :
            /\ profs' = r.profs
            /\ dists' = r.dists
            /\ merged' = [ran |-> TRUE, raised |-> r.raised,
                          duplicates_found |-> r.duplicates_found,
                          profs |-> profs, dists |-> dists,
                          commitOk |-> commitOk]
            /\ phases' = Append(phases, "MergingDuplicates")
     ELSE /\ merged' = [ran |-> FALSE, raised |-> FALSE,
                          duplicates_found |-> 0,
                          profs |-> profs, dists |-> dists,
                          commitOk |-> TRUE]
          /\ UNCHANGED <<profs, dists, phases>>
  /\ UNCHANGED <<snapshot, task, outcome, args, workerCache>>
  /\ UNCHANGED cacheVars
  /\ UNCHANGED outsideVars

\* update_profs, step 2: unless skip_rmp_updates is set the pool is created,
\* the professors are read in name order and handed to Pool.map
StartResolving ==
  /\ pc = "merged"
  /\ IF args.skip_rmp_updates
     THEN /\ pc' = "completed"
          /\ UNCHANGED <<snapshot, task, outcome, phases, workerCache>>
     ELSE /\ pc' = "resolving"
          /\ snapshot' = OrderByName(profs, DOMAIN profs)
          /\ task' = [p \in DOMAIN profs |-> "pending"]
          /\ outcome' = [p \in DOMAIN profs |-> NoOutcome]
          /\ phases' = Append(phases, "ResolvingBatch")
          /\ workerCache' = <<>>
  /\ UNCHANGED <<profs, dists, args, merged>>
  /\ UNCHANGED cacheVars
  /\ UNCHANGED outsideVars

\* the chunk of the map that holds the i-th professor of the snapshot
ChunkOf(i) ==
  (i - 1) \div ChunkSize(Len(snapshot))

\* the tasks a worker holds, the one that is writing the cache file included
Running ==
  {p \in DOMAIN task : task[p] \in {"running", "flushing"}}

\* the chunks a worker is working on
RunningChunks ==
  {ChunkOf(i) : i \in {j \in 1..Len(snapshot) : snapshot[j].id \in Running}}

\* a pool that starts a worker for every chunk handed to the map
TaskStart_unbounded_pool(i) ==
  /\ pc = "resolving"
  /\ i \in 1..Len(snapshot)
  /\ task[snapshot[i].id] = "pending"
  /\ \A j \in 1..(i - 1) : task[snapshot[j].id] # "pending"
  /\ task' = [p \in DOMAIN task |->
                IF \E j \in 1..Len(snapshot) :
                     snapshot[j].id = p /\ ChunkOf(j) = ChunkOf(i)
                THEN "running" ELSE task[p]]
  /\ workerCache' = DictSet(workerCache, ChunkOf(i), cache)
  /\ UNCHANGED <<profs, pc, snapshot, outcome, dists, args, phases, merged>>
  /\ UNCHANGED cacheVars
  /\ UNCHANGED outsideVars

\* a free worker of the pool takes the next chunk of the map, the one that
\* starts with the i-th professor.  The chunk carries one pickled copy of
\* the parent's RMP object (the bound method handed to Pool.map), which all
\* its professors are resolved with.
TaskStart(i) ==
  /\ pc = "resolving"
  /\ i \in 1..Len(snapshot)
  /\ task[snapshot[i].id] = "pending"
  /\ \A j \in 1..(i - 1) : task[snapshot[j].id] # "pending"
  /\ Cardinality(RunningChunks) < MULTIPROCESS_POOL_SIZE
  /\ task' = [p \in DOMAIN task |->
                IF \E j \in 1..Len(snapshot) :
                     snapshot[j].id = p /\ ChunkOf(j) = ChunkOf(i)
                THEN "running" ELSE task[p]]
  /\ workerCache' = DictSet(workerCache, ChunkOf(i), cache)
  /\ UNCHANGED <<profs, pc, snapshot, outcome, dists, args, phases, merged>>
  /\ UNCHANGED cacheVars
  /\ UNCHANGED outsideVars

\* a worker whose UPDATE selects the records by canonical name, not by id
TaskEnd_update_by_canonical_name(i, reply, dbOk) ==
  /\ pc = "resolving"
  /\ i \in 1..Len(snapshot)
  /\ task[snapshot[i].id] = "running"
  /\ \A j \in 1..(i - 1) :
       ChunkOf(j) = ChunkOf(i) => task[snapshot[j].id] # "running"
  /\ \E prof \in {snapshot[i]} :
       \E search \in {get_prof_by_school_and_name(workerCache[ChunkOf(i)],
                                                   cacheFile, prof.name,
                                                   now, reply)} :
         \E done \in {update_prof_by_name(profs[prof.id], prof.name, search,
                                          dbOk)} :
           /\ cacheFile' = search.file
           /\ workerCache' = DictSet(workerCache, ChunkOf(i), search.cache)
           /\ profs' = [q \in DOMAIN profs |->
                          IF q = prof.id THEN done.row
                          ELSE IF /\ done.result = "updated"
                                  /\ canonicalize_name(profs[q].name)
                                       = canonicalize_name(prof.name)
                          THEN [done.row EXCEPT !.name = profs[q].name]
                          ELSE profs[q]]
           /\ outcome' = [outcome EXCEPT ![prof.id] = done]
           /\ task' = [p \in DOMAIN task |->
                         IF p = prof.id
                         THEN (IF done.raised THEN "failed" ELSE "done")
                         ELSE IF /\ done.raised
                                 /\ \E j \in (i + 1)..Len(snapshot) :
                                      /\ snapshot[j].id = p
                                      /\ ChunkOf(j) = ChunkOf(i)
                         THEN "skipped"
                         ELSE task[p]]
  /\ UNCHANGED <<pc, snapshot, dists, args, phases, merged>>
  /\ UNCHANGED <<now, cache, last, putLog, manualLog, searchLog>>
  /\ UNCHANGED outsideVars

\* a worker that looks the professor up in the cache file the workers
\* share instead of its chunk's copy of the cache
TaskEnd_reads_cache_file(i, reply, dbOk) ==
  /\ pc = "resolving"
  /\ i \in 1..Len(snapshot)
  /\ task[snapshot[i].id] = "running"
  /\ \A j \in 1..(i - 1) :
       ChunkOf(j) = ChunkOf(i) => task[snapshot[j].id] # "running"
  /\ \E prof \in {snapshot[i]} :
       \E search \in {get_prof_by_school_and_name(cacheFile, cacheFile,
                                                   prof.name, now, reply)} :
         \E done \in {update_prof_by_name(profs[prof.id], prof.name, search,
                                          dbOk)} :
           /\ cacheFile' = search.file
           /\ workerCache' = DictSet(workerCache, ChunkOf(i), search.cache)
           /\ profs' = [profs EXCEPT ![prof.id] = done.row]
           /\ outcome' = [outcome EXCEPT ![prof.id] = done]
           /\ task' = [p \in DOMAIN task |->
                         IF p = prof.id
                         THEN (IF done.raised THEN "failed" ELSE "done")
                         ELSE IF /\ done.raised
                                 /\ \E j \in (i + 1)..Len(snapshot) :
                                      /\ snapshot[j].id = p
                                      /\ ChunkOf(j) = ChunkOf(i)
                         THEN "skipped"
                         ELSE task[p]]
  /\ UNCHANGED <<pc, snapshot, dists, args, phases, merged>>
  /\ UNCHANGED <<now, cache, last, putLog, manualLog, searchLog>>
  /\ UNCHANGED outsideVars

\* a worker runs update_prof_by_name(prof) on its chunk's copy of the
\* parent's RMP object, for the next professor of its chunk: the search (the
\* provider answering reply), which reads and changes the copy's cache and
\* rewrites the cache file from it, the matching and the write to the store.
\* When the call raises, the worker drops the rest of the chunk.
TaskEnd(i, reply, dbOk) ==
  /\ pc = "resolving"
  /\ i \in 1..Len(snapshot)
  /\ task[snapshot[i].id] = "running"
  /\ \A j \in 1..(i - 1) :
       ChunkOf(j) = ChunkOf(i) => task[snapshot[j].id] # "running"
  /\ \E prof \in {snapshot[i]} :
       \E search \in {get_prof_by_school_and_name(workerCache[ChunkOf(i)],
                                                   cacheFile, prof.name,
                                                   now, reply)} :
         \E done \in {update_prof_by_name(profs[prof.id], prof.name, search,
                                          dbOk)} :
           /\ cacheFile' = search.file
           /\ workerCache' = DictSet(workerCache, ChunkOf(i), search.cache)
           /\ profs' = [profs EXCEPT ![prof.id] = done.row]
           /\ outcome' = [outcome EXCEPT ![prof.id] = done]
           /\ task' = [p \in DOMAIN task |->
                         IF p = prof.id
                         THEN (IF done.raised THEN "failed" ELSE "done")
                         ELSE IF /\ done.raised
                                 /\ \E j \in (i + 1)..Len(snapshot) :
                                      /\ snapshot[j].id = p
                                      /\ ChunkOf(j) = ChunkOf(i)
                         THEN "skipped"
                         ELSE task[p]]
  /\ UNCHANGED <<pc, snapshot, dists, args, phases, merged>>
  /\ UNCHANGED <<now, cache, last, putLog, manualLog, searchLog>>
  /\ UNCHANGED outsideVars

\* a map that waits for every task to succeed
Finished_all_succeeded ==
  \A p \in DOMAIN task : task[p] = "done"

\* every chunk has ended
Finished ==
  \A p \in DOMAIN task : task[p] \in {"done", "failed", "skipped"}

\* every task returned: Pool.map returns and step 2 is over
MapReturn ==
  /\ pc = "resolving"
  /\ Finished
  /\ \A p \in DOMAIN task : task[p] = "done"
  /\ pc' = "completed"
  /\ UNCHANGED <<profs, snapshot, task, outcome, dists, args, phases, merged,
                 workerCache>>
  /\ UNCHANGED cacheVars
  /\ UNCHANGED outsideVars

\* every chunk ended and one raised: Pool.map raises its exception, which
\* update_profs passes on to main; the run is over
MapRaise ==
  /\ pc = "resolving"
  /\ Finished
  /\ \E p \in DOMAIN task : task[p] = "failed"
  /\ pc' = "raised"
  /\ UNCHANGED <<profs, snapshot, task, outcome, dists, args, phases, merged,
                 workerCache>>
  /\ UNCHANGED cacheVars
  /\ UNCHANGED outsideVars

\* update_profs, step 3: the integrity audit when debug is set (it reads
\* and reports, it writes nothing), and update_profs returns
VerifyIntegrity ==
  /\ pc = "completed"
  /\ pc' = "returned"
  /\ phases' = IF args.debug THEN Append(phases, "VerifyingIntegrity")
               ELSE phases
  /\ UNCHANGED <<profs, snapshot, task, outcome, dists, args, merged,
                 workerCache>>
  /\ UNCHANGED cacheVars
  /\ UNCHANGED outsideVars

\* the provider raising, or answering one of the lists of answers
Replies(answers) ==
  {ProviderRaises} \cup {ProviderReturns(edges) : edges \in answers}

NextBatch ==
  \/ \E commitOk \in BOOLEAN : MergeDuplicates(commitOk)
  \/ StartResolving
  \/ \E i \in 1..Len(snapshot) : TaskStart(i)
  \/ \E i \in 1..Len(snapshot), dbOk \in BOOLEAN :
       \E reply \in Replies(ProviderAnswers(snapshot[i].name)) :
         TaskEnd(i, reply, dbOk)
  \/ MapReturn
  \/ MapRaise
  \/ VerifyIntegrity

SpecBatch == InitBatch /\ [][NextBatch]_vars

\* ------------------------------------------------------------------------
\* A run of update_profs as main starts it, on a store with duplicates
\* ------------------------------------------------------------------------

\* "Dr. Jane Doe"
DrJaneDoe ==
  <<"D","r","."," ","J","a","n","e"," ","D","o","e">>

\* the enrichment of a professor found on the provider with no ratings yet
UnratedEnrichment ==
  Enrichment(Some(0), Some(0), Null, Some(ProfileLink(Str(8))))

\* three records of one canonical name that own 0, 3 and 1 distributions,
\* the one that owns 1 being the only one enriched
StoreThree ==
  [profs |-> << ProfRow(JaneDoe, NoEnrichment),
                ProfRow(JaneDoeLoose, NoEnrichment),
                ProfRow(DrJaneDoe, PriorEnrichment) >>,
   dists |-> << DistRow(1, 1, Some(2)), DistRow(2, 2, Some(2)),
                DistRow(3, 3, Some(2)), DistRow(4, 1, Some(3)) >>]

\* two records of one canonical name, the one that owns the distribution
\* holding the score 0.0 and the other a rated enrichment
StoreUnratedOwner ==
  [profs |-> << ProfRow(JaneDoe, UnratedEnrichment),
                ProfRow(JaneDoeLoose, PriorEnrichment) >>,
   dists |-> << DistRow(1, 1, Some(1)) >>]

\* two records of one canonical name that own one distribution each, the
\* one with the higher id holding the score 0.0
StoreTie ==
  [profs |-> << ProfRow(JaneDoe, NoEnrichment),
                ProfRow(JaneDoeLoose, UnratedEnrichment) >>,
   dists |-> << DistRow(1, 1, Some(1)), DistRow(2, 1, Some(2)) >>]

\* two professors of different names, and a distribution with no professor
StoreDistinct ==
  [profs |-> << ProfRow(JaneDoe, PriorEnrichment),
                ProfRow(BobSmith, NoEnrichment) >>,
   dists |-> << DistRow(1, 1, Some(1)), DistRow(2, 1, Some(2)),
                DistRow(3, 2, Null) >>]

RunStores ==
  {StoreThree, StoreUnratedOwner, StoreTie, StoreDistinct}

\* the answers the provider gives in these runs
RunAnswers ==
  {<<>>, <<cJaneDoe>>}

InitRun ==
  /\ now = 0
  /\ cache = default_cache
  /\ cacheFile = default_cache
  /\ last = Call("start", <<>>, Absent, 0)
  /\ putLog = <<>>
  /\ manualLog = <<>>
  /\ searchLog = <<>>
  /\ \E store \in RunStores :
       /\ profs = store.profs
       /\ dists = store.dists
  /\ pc = "idle"
  /\ snapshot = <<>>
  /\ task = <<>>
  /\ outcome = <<>>
  /\ \E fix_duplicates_flag, rmp_only, debug \in BOOLEAN :
       args = MainArgs(fix_duplicates_flag, rmp_only, debug)
  /\ phases = <<>>
  /\ merged = NoMerge
  /\ Outside

NextRun ==
  \/ \E commitOk \in BOOLEAN : MergeDuplicates(commitOk)
  \/ StartResolving
  \/ \E i \in 1..Len(snapshot) : TaskStart(i)
  \/ \E i \in 1..Len(snapshot), dbOk \in BOOLEAN :
       \E reply \in Replies(RunAnswers) : TaskEnd(i, reply, dbOk)
  \/ MapReturn
  \/ MapRaise
  \/ VerifyIntegrity

SpecRun == InitRun /\ [][NextRun]_vars

\* the same runs with every step that can be taken eventually taken: the
\* pass, the audit and the pool's workers run, and every provider call
\* returns or raises
SpecRunFair == SpecRun /\ WF_vars(NextRun)

\* ------------------------------------------------------------------------
\* A run in RMP-only mode on a store large enough for Pool.map to hand its
\* workers chunks of two professors
\* ------------------------------------------------------------------------

\* the fewest professors for which a chunk holds two
PoolProfs ==
  (4 * MULTIPROCESS_POOL_SIZE) + 1

\* the most workers of the pool that are at work at the same time in these
\* runs
MaxBusy == 2

\* "Al A", "Al B", ...
PoolName(i) ==
  <<"A", "l", " ", Capitals[i]>>

InitPool ==
  /\ now = 0
  /\ cache = default_cache
  /\ cacheFile = default_cache
  /\ last = Call("start", <<>>, Absent, 0)
  /\ putLog = <<>>
  /\ manualLog = <<>>
  /\ searchLog = <<>>
  /\ profs = [i \in 1..PoolProfs |-> ProfRow(PoolName(i), NoEnrichment)]
  /\ dists = <<>>
  /\ pc = "idle"
  /\ snapshot = <<>>
  /\ task = <<>>
  /\ outcome = <<>>
  /\ args = MainArgs(FALSE, TRUE, FALSE)
  /\ phases = <<>>
  /\ merged = NoMerge
  /\ Outside

\* the provider finds nobody, and may raise in the search for the first
\* professor
PoolReplies(name) ==
  IF name = PoolName(1)
  THEN {ProviderRaises, ProviderReturns(<<>>)}
  ELSE {ProviderReturns(<<>>)}

NextPool ==
  \/ \E commitOk \in BOOLEAN : MergeDuplicates(commitOk)
  \/ StartResolving
  \/ \E i \in 1..Len(snapshot) :
       Cardinality(RunningChunks) < MaxBusy /\ TaskStart(i)
  \/ \E i \in 1..Len(snapshot) :
       \E reply \in PoolReplies(snapshot[i].name) : TaskEnd(i, reply, TRUE)
  \/ MapReturn
  \/ MapRaise
  \/ VerifyIntegrity

SpecPool == InitPool /\ [][NextPool]_vars

\* ------------------------------------------------------------------------
\* Properties of the cache
\* ------------------------------------------------------------------------

\* C1: once putManual(name, d) has been called, every later get(name)
\* returns the manual entry's candidate list, whatever positive or negative
\* entry exists for the key and whatever the manual entry's age.
C1_ManualAlwaysWins ==
  (last.op = "get" /\ get_cache_key(last.name) \in DOMAIN manualLog)
    => last.ret = Hit(ManualCandidates(manualLog[get_cache_key(last.name)]))

\* a get of a key whose manual entry is 180 days old and which also has a
\* positive and a negative entry written after it
C1_Witness ==
  LET k == get_cache_key(last.name)
  IN  /\ last.op = "get"
      /\ k \in DOMAIN manualLog
      /\ k \in DOMAIN cache.manual
      /\ now - cache.manual[k].timestamp >= POSITIVE_TTL_DAYS
      /\ k \in DOMAIN cache.positive
      /\ k \in DOMAIN cache.negative

\* C2: for a key with no manual entry, a get after put(name, []) returns the
\* empty list when issued less than 14 days later and absent otherwise; a get
\* after put(name, [c]) returns [c] when issued less than 180 days later and
\* absent otherwise, whatever earlier puts left for the key.
C2_PutThenGet ==
  LET k == get_cache_key(last.name)
  IN  (last.op = "get" /\ k \in DOMAIN putLog /\ k \notin DOMAIN manualLog)
        => IF putLog[k].data = <<>>
           THEN last.ret = IF now - putLog[k].timestamp < NEGATIVE_TTL_DAYS
                           THEN Hit(<<>>) ELSE Absent
           ELSE last.ret = IF now - putLog[k].timestamp < POSITIVE_TTL_DAYS
                           THEN Hit(putLog[k].data) ELSE Absent

\* C3: no key is present in both the positive and the negative tier.
C3_OneTierPerKey ==
  DOMAIN cache.positive \cap DOMAIN cache.negative = {}

\* the entry of the cache c that a lookup of key k at time t answers with
ValidEntry(c, k, t) ==
  IF k \in DOMAIN c.manual THEN Hit(c.manual[k].data)
  ELSE IF k \in DOMAIN c.positive /\ t - c.positive[k].timestamp < POSITIVE_TTL_DAYS
  THEN Hit(c.positive[k].data)
  ELSE IF k \in DOMAIN c.negative /\ t - c.negative[k].timestamp < NEGATIVE_TTL_DAYS
  THEN Hit(<<>>)
  ELSE Absent

\* C4: a search whose name has a valid cache entry (manual, positive younger
\* than 180 days, negative younger than 14 days) returns that entry without
\* a provider call; otherwise it makes exactly one provider call and stores
\* the list returned under the original name's key, and a second search for
\* the name within the TTL makes no provider call and returns the same list.
C4_SearchUsesCache ==
  [][ last'.op = "search" =>
        LET k == get_cache_key(last'.name)
            held == ValidEntry(cache, k, now)
        IN  /\ held.hit =>
                 /\ last'.calls = 0
                 /\ last'.ret = held
                 /\ cacheFile' = cacheFile
            /\ ~held.hit =>
                 /\ last'.calls = 1
                 /\ last'.ret.hit =>
                      /\ ValidEntry(cache', k, now) = last'.ret
                      /\ ValidEntry(cacheFile', k, now) = last'.ret
                      /\ DOMAIN cache'.positive \cup DOMAIN cache'.negative
                           \subseteq DOMAIN cache.positive
                                       \cup DOMAIN cache.negative \cup {k}
            /\ ( /\ k \in DOMAIN searchLog
                 /\ k \notin DOMAIN cache.manual
                 /\ now - searchLog[k].timestamp
                      < (IF searchLog[k].data = <<>>
                         THEN NEGATIVE_TTL_DAYS ELSE POSITIVE_TTL_DAYS) )
                 => /\ last'.calls = 0
                    /\ last'.ret = Hit(searchLog[k].data)
    ]_vars

\* a second search, 13 days after the first stored a non-empty list, that is
\* answered with that list and without a provider call
C4_Witness ==
  LET k == get_cache_key(last.name)
  IN  /\ last.op = "search"
      /\ last.calls = 0
      /\ k \in DOMAIN searchLog
      /\ k \notin DOMAIN cache.manual
      /\ searchLog[k].data # <<>>
      /\ searchLog[k].timestamp < now
      /\ last.ret = Hit(searchLog[k].data)

\* ------------------------------------------------------------------------
\* Properties of the resolution batch
\* ------------------------------------------------------------------------

\* the professors whose task ran its matching
Resolved ==
  {p \in DOMAIN outcome : outcome[p].result \notin {"none", "provider_error"}}

\* the row the store held for professor p when the run started
RowBefore(p) ==
  AllProfessors[p]

\* the row an accepted candidate leaves for professor p
RowWith(p, candidate) ==
  UpdateRow(RowBefore(p), validate_and_extract_rmp_data(candidate).data)

\* C5: a provider error raised by the search for one professor is caught
\* for that professor and treated as no match: the professor's record is
\* unchanged, its task ends normally and the batch does not abort.
C5_ProviderErrorContained ==
  \A p \in DOMAIN outcome :
    outcome[p].result = "provider_error"
      => /\ profs[p] = RowBefore(p)
         /\ task[p] = "done"
         /\ pc # "raised"

\* C6: when the store write for one professor fails, the step leaves the
\* whole store as it was (the professor's record unchanged, the updates
\* committed for others retained), the task returns normally, the batch goes
\* on and no other task is affected.
C6_WriteFailureRolledBack ==
  [][ \A p \in DOMAIN outcome' :
        ( /\ p \in DOMAIN outcome
          /\ outcome[p].result = "none"
          /\ outcome'[p].result = "db_error" )
          => /\ profs' = profs
             /\ task'[p] = "done"
             /\ pc' = "resolving"
             /\ \A q \in DOMAIN task \ {p} :
                  task'[q] = task[q] /\ outcome'[q] = outcome[q]
    ]_vars

\* a completed run in which one professor's write failed, leaving the
\* enrichment it had, and another professor was updated
C6_Witness ==
  /\ pc = "completed"
  /\ \E p, q \in DOMAIN outcome :
       /\ outcome[p].result = "db_error"
       /\ profs[p] = RowBefore(p)
       /\ profs[p].RMP_link # Null
       /\ outcome[q].result = "updated"
       /\ profs[q] # RowBefore(q)

\* C7: when more than one candidate survives the exact-match filter the
\* professor is not updated, and a professor is updated only when the final
\* candidate pool holds exactly one candidate.
C7_AmbiguousNeverUpdates ==
  \A p \in Resolved :
    /\ Len(ExactMatches(profs[p].name, outcome[p].found)) > 1
         => /\ outcome[p].result # "updated"
            /\ profs[p] = RowBefore(p)
    /\ (outcome[p].result = "updated" \/ profs[p] # RowBefore(p))
         => Len(outcome[p].profMatches) = 1

\* two exact matches with valid data, while the store could be written, and
\* the professor keeps the row it had
C7_Witness ==
  \E p \in Resolved :
    /\ ExactMatches(profs[p].name, outcome[p].found) = <<cJaneDoe, cJaneDoeTwin>>
    /\ outcome[p].result = "ambiguous"
    /\ profs[p] = RowBefore(p)

\* C8: when exactly one candidate passes the exact-match filter it is the
\* one chosen, in the exact tier and with no quality validation, whatever
\* other candidates the search returned; it is the one written when its data
\* is valid and the write succeeds.
C8_SoleExactMatchChosen ==
  \A p \in Resolved :
    LET exact == ExactMatches(profs[p].name, outcome[p].found)
    IN  Len(exact) = 1
          => /\ outcome[p].tier = "exact"
             /\ outcome[p].quality = Null
             /\ outcome[p].profMatches = exact
             /\ outcome[p].result \in {"updated", "db_error", "invalid"}
             /\ outcome[p].result = "updated" => profs[p] = RowWith(p, exact[1])

\* "Jane Doe" against [Jane Doe, Jane Doyle]: Jane Doe's data is written
C8_Witness ==
  \E p \in Resolved :
    /\ profs[p].name = JaneDoe
    /\ outcome[p].found = <<cJaneDoe, cJaneDoyle>>
    /\ outcome[p].result = "updated"
    /\ profs[p] = RowWith(p, cJaneDoe)
    /\ profs[p].RMP_link = Some(ProfileLink(Str(101)))

\* C9: a candidate selected by the nickname tier is validated with
\* confidence 1.0 and recommendation accept, whatever the similarity of the
\* two full names.
C9_NicknameAccepted ==
  \A p \in Resolved :
    outcome[p].tier = "nickname"
      => /\ FracEq(outcome[p].quality[1].confidence, Frac(1, 1))
         /\ outcome[p].quality[1].recommended_action = "accept"

Written ==
  {p \in DOMAIN outcome : profs[p] # RowBefore(p)}

\* a candidate the store must never hold: no legacy id, one that is not all
\* digits, or a rating or difficulty outside [0, 5]
Unusable(c) ==
  \/ c.legacyId = Null
  \/ ~isdigit(StrInt(c.legacyId[1]))
  \/ (c.avgRating # Null /\ ~(0 <= c.avgRating[1] /\ c.avgRating[1] <= 50))
  \/ (c.avgDifficulty # Null
        /\ ~(0 <= c.avgDifficulty[1] /\ c.avgDifficulty[1] <= 50))

\* C11: every enrichment written by resolution comes from a candidate with a
\* non-null, all-digit legacy id; the stored link is
\* <provider-base>/professor/<that id>, the stored score and difficulty are
\* in [0, 5] (0.0 when the candidate's field is absent) and the stored
\* would-take-again is in [-1, 100] or absent.  A candidate with a null or
\* non-digit legacy id, or a score or difficulty outside [0, 5], is never
\* persisted.
C11_WrittenEnrichmentValid ==
  /\ \A p \in Written :
        /\ outcome[p].result = "updated"
        /\ Len(outcome[p].profMatches) = 1
        /\ LET c == outcome[p].profMatches[1]
               row == profs[p]
           IN  /\ ~Unusable(c)
               /\ row.RMP_link =
                    Some([base |-> RMP_BASE_URL, path |-> "/professor/",
                          id |-> StrInt(c.legacyId[1])])
               /\ row.RMP_score # Null
               /\ 0 <= row.RMP_score[1] /\ row.RMP_score[1] <= 50
               /\ row.RMP_score = IF c.avgRating = Null THEN Some(0)
                                  ELSE c.avgRating
               /\ row.RMP_diff # Null
               /\ 0 <= row.RMP_diff[1] /\ row.RMP_diff[1] <= 50
               /\ row.RMP_diff = IF c.avgDifficulty = Null THEN Some(0)
                                 ELSE c.avgDifficulty
               /\ \/ row.RMP_would_take_again = Null
                  \/ /\ -1 <= row.RMP_would_take_again[1]
                     /\ row.RMP_would_take_again[1] <= 100
  /\ \A p \in Resolved :
        ( /\ Len(outcome[p].profMatches) = 1
          /\ Unusable(outcome[p].profMatches[1]) )
          => /\ profs[p] = RowBefore(p)
             /\ outcome[p].result = "invalid"

\* the three kinds of unusable candidate were each chosen for a professor
\* and left its row as it was, and an unrated candidate was written as 0.0
C11_Witness ==
  \E p \in Resolved :
    /\ outcome[p].profMatches \in {<<cJaneDoeBadRating>>, <<cJaneDoeBadDiff>>,
                                    <<cJaneDoeBadId>>, <<cJaneDoeNoId>>}
    /\ outcome[p].result = "invalid"
    /\ profs[p] = RowBefore(p)
    /\ \E q \in Written :
         /\ outcome[q].profMatches[1].avgRating = Null
         /\ profs[q].RMP_score = Some(0)
         /\ profs[q].RMP_diff = Some(0)

\* C12 as stated: a candidate whose would-take-again value is present and
\* outside [-1, 100] is rejected as invalid, none of its data is persisted
\* and the professor is left unchanged; a value of -1 is preserved as -1.
C12_TakeAgainOutOfRangeRejected ==
  \A p \in Resolved :
    Len(outcome[p].profMatches) = 1
      => LET w == outcome[p].profMatches[1].wouldTakeAgainPercent
         IN  /\ (w # Null /\ ~(-1 <= w[1] /\ w[1] <= 100))
                  => /\ outcome[p].result = "invalid"
                     /\ profs[p] = RowBefore(p)
             /\ (w = Some(-1) /\ outcome[p].result = "updated")
                  => profs[p].RMP_would_take_again = Some(-1)

\* C12 as the code has it: a candidate whose would-take-again value is
\* present and outside [-1, 100] is not rejected for it: when its legacy id,
\* rating and difficulty are valid and the write succeeds, its score,
\* difficulty and link are persisted and its would-take-again is stored as
\* absent; a value of -1 is preserved as -1.
C12_TakeAgainOutOfRangeStoredAbsent ==
  \A p \in Resolved :
    Len(outcome[p].profMatches) = 1
      => LET c == outcome[p].profMatches[1]
             w == c.wouldTakeAgainPercent
         IN  /\ (w # Null /\ ~(-1 <= w[1] /\ w[1] <= 100) /\ ~Unusable(c))
                  => /\ outcome[p].result \in {"updated", "db_error"}
                     /\ outcome[p].result = "updated"
                          => /\ profs[p].RMP_would_take_again = Null
                             /\ profs[p].RMP_score = RatingValue(c.avgRating)
                             /\ profs[p].RMP_diff = RatingValue(c.avgDifficulty)
                             /\ profs[p].RMP_link =
                                  Some(ProfileLink(Str(c.legacyId[1])))
             /\ (w = Some(-1) /\ outcome[p].result = "updated")
                  => profs[p].RMP_would_take_again = Some(-1)

\* one professor was written from the candidate with would-take-again 101,
\* another from the candidate with would-take-again -1
C12_Witness ==
  \E p \in Written :
    /\ outcome[p].profMatches = <<cJaneDoeBadTakeAgain>>
    /\ profs[p].RMP_would_take_again = Null
    /\ profs[p].RMP_score = Some(40)
    /\ \E q \in Written :
         /\ outcome[q].profMatches[1].wouldTakeAgainPercent = Some(-1)
         /\ profs[q].RMP_would_take_again = Some(-1)

\* ------------------------------------------------------------------------
\* Properties of the duplicate pass
\* ------------------------------------------------------------------------

\* the duplicate groups of the store the pass started from: the sets of two
\* or more professor ids with one canonical name
GroupsBefore ==
  LET table == merged.profs
      key == [p \in DOMAIN table |-> canonicalize_name(table[p].name)]
  IN  {G \in {{q \in DOMAIN table : key[q] = key[p]} : p \in DOMAIN table} :
         Cardinality(G) > 1}

\* the number of distributions professor p owned when the pass started
OwnedBefore(p) ==
  Cardinality({d \in DOMAIN merged.dists :
                 merged.dists[d].instructor_id = Some(p)})

\* the member of G that owns the most distributions, the one with the
\* lowest id among those that own the most
MostOwning(G) ==
  CHOOSE p \in G :
    \A q \in G : \/ OwnedBefore(p) > OwnedBefore(q)
                 \/ (OwnedBefore(p) = OwnedBefore(q) /\ p <= q)

\* the four enrichment columns of a row
EnrichmentOf(row) ==
  Enrichment(row.RMP_score, row.RMP_diff, row.RMP_would_take_again,
             row.RMP_link)

\* C13: for every duplicate group the merge selects a survivor: the member
\* that owns the most relations, the one with the lowest id among the
\* members that own that maximum.  After the pass it is the one member of
\* the group left in the store.
C13_SurvivorOwnsMost ==
  merged.ran
    => \A G \in GroupsBefore : G \cap (DOMAIN profs) = {MostOwning(G)}

\* C14: after a merge pass every relation that a member of a duplicate
\* group owned is owned by the group's survivor, the number of relations is
\* unchanged and every other member is gone; and in no committed state does
\* a relation reference a professor record that does not exist.
C14_RelationsMovedToSurvivor ==
  /\ \A d \in DOMAIN dists :
        \/ dists[d].instructor_id = Null
        \/ dists[d].instructor_id[1] \in DOMAIN profs
  /\ merged.ran
       => /\ DOMAIN dists = DOMAIN merged.dists
          /\ \A G \in GroupsBefore :
                /\ Cardinality(G \cap (DOMAIN profs)) = 1
                /\ \A d \in DOMAIN merged.dists :
                     ( /\ merged.dists[d].instructor_id # Null
                       /\ merged.dists[d].instructor_id[1] \in G )
                       => /\ dists[d].instructor_id # Null
                          /\ dists[d].instructor_id[1] \in G \cap (DOMAIN profs)

\* C15: after the duplicate pass has run, no two professor records of the
\* store have the same canonical name.
C15_OneRecordPerCanonicalName ==
  merged.ran
    => \A p, q \in DOMAIN profs :
         canonicalize_name(profs[p].name) = canonicalize_name(profs[q].name)
           => p = q

\* C16: in a merge, when the survivor's score is absent and a loser's score
\* is present (0.0 included), the four enrichment fields of such a loser are
\* copied to the survivor before the loser is deleted; a survivor whose
\* score is present (0.0 included) keeps its own enrichment fields.
C16_EnrichmentKeptOrCopied ==
  (merged.ran /\ pc = "merged")
    => \A G \in GroupsBefore :
         \E s \in G :
           /\ G \cap (DOMAIN profs) = {s}
           /\ IF /\ merged.profs[s].RMP_score = Null
                 /\ \E l \in G \ {s} : merged.profs[l].RMP_score # Null
              THEN \E l \in G \ {s} :
                     /\ merged.profs[l].RMP_score # Null
                     /\ EnrichmentOf(profs[s]) = EnrichmentOf(merged.profs[l])
              ELSE EnrichmentOf(profs[s]) = EnrichmentOf(merged.profs[s])

\* ------------------------------------------------------------------------
\* Properties of the orchestration
\* ------------------------------------------------------------------------

\* C17: in a run with duplicate-fix enabled no resolution task starts
\* before the merge pass has finished, and the snapshot the resolution
\* batch works on holds no two records with the same canonical name.
C17_ResolutionSeesNoDuplicate ==
  args.fix_duplicates
    => /\ (pc = "idle" => task = <<>> /\ snapshot = <<>>)
       /\ (pc = "resolving"
             => /\ merged.ran
                /\ phases = <<"MergingDuplicates", "ResolvingBatch">>
                /\ \A i, j \in 1..Len(snapshot) :
                     canonicalize_name(snapshot[i].name)
                       = canonicalize_name(snapshot[j].name) => i = j)

\* the run is over: update_profs returned, or raised to main
RunOver ==
  pc \in {"returned", "raised"}

\* whether the phase is among those that ran
Ran(phase) ==
  \E k \in 1..Len(phases) : phases[k] = phase

\* C18: a run visits MergingDuplicates, ResolvingBatch and
\* VerifyingIntegrity in that order, each at most once; by the end of the
\* run MergingDuplicates has run exactly when duplicate-fix is enabled,
\* ResolvingBatch exactly when RMP updates are not skipped and
\* VerifyingIntegrity exactly when debug is set; in duplicate-fix-only mode
\* there is no provider call and no enrichment update.
C18_PhasesInOrder ==
  /\ \A k, l \in 1..Len(phases) :
        k < l => \/ phases[k] = "MergingDuplicates" /\ phases[l] # "MergingDuplicates"
                 \/ phases[k] = "ResolvingBatch" /\ phases[l] = "VerifyingIntegrity"
  /\ RunOver
       => /\ Ran("MergingDuplicates") <=> args.fix_duplicates
          /\ Ran("ResolvingBatch") <=> ~args.skip_rmp_updates
          /\ Ran("VerifyingIntegrity") <=> args.debug
  /\ (args.skip_rmp_updates /\ pc # "idle")
       => /\ \A p \in DOMAIN outcome : outcome[p].calls = 0
          /\ cacheFile = default_cache
          /\ \A p \in DOMAIN profs :
               EnrichmentOf(profs[p]) = EnrichmentOf(merged.profs[p])

\* C19: the professor list is read once, and every professor of that
\* snapshot is handed to exactly one resolution task: by the end of the
\* batch each has been resolved once, none twice and none skipped.
C19_EveryProfessorResolvedOnce ==
  /\ pc \in {"resolving", "completed", "raised", "returned"} /\ Ran("ResolvingBatch")
       => /\ Len(snapshot) = Cardinality(DOMAIN profs)
          /\ \A p \in DOMAIN profs :
               Cardinality({i \in 1..Len(snapshot) : snapshot[i].id = p}) = 1
          /\ \A p \in DOMAIN task : task[p] # "skipped"
  /\ pc \in {"completed", "raised", "returned"} /\ Ran("ResolvingBatch")
       => \A p \in DOMAIN task :
            task[p] \in {"done", "failed"} /\ outcome[p].result # "none"

\* C20: provided every provider call eventually returns or raises, every
\* run of update_profs eventually ends: the tasks handed to the pool all
\* finish and update_profs returns, or raises to main.
C20_RunEnds ==
  <>RunOver

\* a run of all three phases that resolved three professors and returned
C20_Witness ==
  /\ pc = "returned"
  /\ phases = <<"MergingDuplicates", "ResolvingBatch", "VerifyingIntegrity">>
  /\ Len(snapshot) = 3
  /\ \A p \in DOMAIN task : task[p] = "done" /\ outcome[p].calls = 1

\* ------------------------------------------------------------------------
\* Properties of persistence
\* ------------------------------------------------------------------------

\* C30: after every call that changes the in-memory cache (a put, a
\* putManual, a get that evicts an expired positive or negative entry) the
\* content of the cache file equals the in-memory cache of the caller.
C30_DurableEqualsMemory ==
  [][ cache' # cache => cacheFile' = cache' ]_vars

\* the outcomes of a resolution that found nothing to write: no match (or a
\* match dropped on a review or reject recommendation), an ambiguous match,
\* a validation rejection
NothingToWrite ==
  {"failed_to_find", "ambiguous", "invalid"}

\* C26: when the resolution of a professor ends with no match, an ambiguous
\* match, a review or reject recommendation or a validation rejection, every
\* field of that professor's record is unchanged and so is every other
\* professor's record.
C26_NoMatchLeavesStore ==
  [][ \A p \in DOMAIN outcome' :
        ( /\ p \in DOMAIN outcome
          /\ outcome[p].result = "none"
          /\ outcome'[p].result \in NothingToWrite )
          => profs' = profs
    ]_vars

\* a completed run that rejected the only candidate of one enriched
\* professor on validation and dropped the fuzzy match of another on its
\* recommendation, both keeping the enrichment they had
C26_Witness ==
  /\ pc = "completed"
  /\ \E p, q \in DOMAIN outcome :
       /\ outcome[p].result = "invalid"
       /\ outcome[q].result = "failed_to_find"
       /\ outcome[q].quality # Null
       /\ outcome[q].quality[1].recommended_action \in {"review", "reject"}
       /\ profs[p] = RowBefore(p) /\ profs[p].RMP_link # Null
       /\ profs[q] = RowBefore(q) /\ profs[q].RMP_link # Null

\* ------------------------------------------------------------------------
\* The canonicalizer on its own: a name is canonicalized, the result is
\* canonicalized again, a first name is expanded into its variants
\* ------------------------------------------------------------------------

\* every variable but last, as a process that runs no batch leaves them
Quiet ==
  /\ now = 0
  /\ cache = default_cache
  /\ cacheFile = default_cache
  /\ putLog = <<>>
  /\ manualLog = <<>>
  /\ searchLog = <<>>
  /\ profs = <<>>
  /\ pc = "idle"
  /\ snapshot = <<>>
  /\ task = <<>>
  /\ outcome = <<>>
  /\ dists = <<>>
  /\ args = MainArgs(FALSE, TRUE, FALSE)
  /\ phases = <<>>
  /\ merged = NoMerge
  /\ Outside

\* the titles a name of the runs may start with: none, "Dr ", "Dr. ",
\* "Prof. ", "Professor ", "DrDr ", "ProfDr "
TitleForms ==
  { <<>>, <<"D","r"," ">>, <<"D","r","."," ">>, <<"P","r","o","f","."," ">>,
    <<"P","r","o","f","e","s","s","o","r"," ">>, <<"D","r","D","r"," ">>,
    <<"P","r","o","f","D","r"," ">> }

\* the names proper: "John Smith", "Drew Smith", "X"
BareNames ==
  { <<"J","o","h","n"," ","S","m","i","t","h">>,
    <<"D","r","e","w"," ","S","m","i","t","h">>,
    <<"X">> }

\* what may follow the name: nothing, " Jr", " Jr.", " Jr Jr", " III Sr."
SuffixForms ==
  { <<>>, <<" ","J","r">>, <<" ","J","r",".">>, <<" ","J","r"," ","J","r">>,
    <<" ","I","I","I"," ","S","r",".">> }

NameInputs ==
  { t \o b \o s : t \in TitleForms, b \in BareNames, s \in SuffixForms }

\* the nicknames listed for an entry of the alias table
Nicks(entry) ==
  {entry.nicknames[j] : j \in 1..Len(entry.nicknames)}

AliasEntries ==
  {nickname_map[i] : i \in 1..Len(nickname_map)}

\* every first name of the alias table, full or nickname
TableNames ==
  UNION {{e.full} \cup Nicks(e) : e \in AliasEntries}

InitNames ==
  /\ Quiet
  /\ \E x \in NameInputs \cup TableNames : last = Call("input", x, Absent, 0)

\* canonicalize(name) on the input
Canonicalize ==
  /\ last.op = "input"
  /\ last' = Call("canonicalize", last.name, Hit(canonicalize_name(last.name)), 0)
  /\ UNCHANGED <<now, cache, cacheFile, putLog, manualLog, searchLog>>
  /\ UNCHANGED batchVars
  /\ UNCHANGED outsideVars

\* canonicalize applied to a key that canonicalize returned
CanonicalizeAgain ==
  /\ last.op = "canonicalize"
  /\ last' = Call("canonicalize", last.ret.data,
                  Hit(canonicalize_name(last.ret.data)), 0)
  /\ UNCHANGED <<now, cache, cacheFile, putLog, manualLog, searchLog>>
  /\ UNCHANGED batchVars
  /\ UNCHANGED outsideVars

\* nameVariants(firstName) on the input
NameVariants ==
  /\ last.op = "input"
  /\ last' = Call("name_variants", last.name, Hit(get_name_variants(last.name)), 0)
  /\ UNCHANGED <<now, cache, cacheFile, putLog, manualLog, searchLog>>
  /\ UNCHANGED batchVars
  /\ UNCHANGED outsideVars

NextNames ==
  \/ Canonicalize
  \/ CanonicalizeAgain
  \/ NameVariants

SpecNames == InitNames /\ [][NextNames]_vars

\* C23: canonicalize is idempotent: canonicalizing a key that canonicalize
\* returned gives the same key, for every name, repeated or embedded titles
\* and repeated generational suffixes included.
C23_CanonicalizeIdempotent ==
  last.op = "canonicalize"
    => canonicalize_name(last.ret.data) = last.ret.data

\* C24: alias symmetry: the variants of a nickname of the table hold its
\* full name and the variants of a full name hold each of its nicknames, so
\* for first names a, b of the table, b is a variant of a exactly when a is
\* a variant of b.
C24_AliasSymmetry ==
  last.op = "name_variants"
    => /\ \A e \in AliasEntries :
            /\ last.name \in Nicks(e) => e.full \in last.ret.data
            /\ last.name = e.full => Nicks(e) \subseteq last.ret.data
       /\ \A b \in TableNames :
            last.name \in TableNames
              => (b \in last.ret.data <=> last.name \in get_name_variants(b))

\* ------------------------------------------------------------------------
\* Loading the cache: RMP.__init__ on the cache file it finds
\* ------------------------------------------------------------------------

\* the keys of default_cache, in the order _load_cache walks them
Tiers ==
  <<"positive", "negative", "manual">>

\* What rmp_cache.json may be when the process starts: absent, a file that
\* open or json.load raises on, or a file holding a JSON object (a dict by
\* key), a JSON array of strings, or null.
MissingFile ==
  [kind |-> "missing", value |-> <<>>]

UnreadableFile ==
  [kind |-> "unreadable", value |-> <<>>]

JsonObject(dict) ==
  [kind |-> "object", value |-> dict]

JsonArray(items) ==
  [kind |-> "array", value |-> items]

JsonNull ==
  [kind |-> "null", value |-> <<>>]

\* the dict with the keys given, each taken from the dict full
Restrict(full, keys) ==
  IF keys = {} THEN <<>> ELSE [k \in keys |-> full[k]]

\* a load that falls back to the default cache when a tier is missing
load_cache_all_or_nothing(store) ==
  IF store.kind \in {"missing", "unreadable", "null"}
  THEN default_cache
  ELSE IF store.kind = "array"
  THEN IF \A i \in 1..Len(Tiers) :
            \E j \in 1..Len(store.value) : store.value[j] = Tiers[i]
       THEN store.value
       ELSE default_cache
  ELSE IF \A i \in 1..Len(Tiers) : Tiers[i] \in DOMAIN store.value
       THEN store.value
       ELSE default_cache

\* RMP._load_cache on the file store: the cache the method returns.  A file
\* that is absent gives the default cache; so does every exception raised
\* in the try (open, json.load, the membership test on null, the item
\* assignment on an array).  An object is returned with each missing tier
\* set to an empty dict; an array that holds all three tier names passes
\* the three membership tests and is returned as it is.
load_cache(store) ==
  IF store.kind \in {"missing", "unreadable", "null"}
  THEN default_cache
  ELSE IF store.kind = "array"
  THEN IF \A i \in 1..Len(Tiers) :
            \E j \in 1..Len(store.value) : store.value[j] = Tiers[i]
       THEN store.value
       ELSE default_cache
  ELSE [k \in (DOMAIN store.value) \cup {Tiers[i] : i \in 1..Len(Tiers)} |->
          IF k \in DOMAIN store.value THEN store.value[k] ELSE <<>>]

\* a cache file written by an earlier version or run: an entry for
\* "jane doe" in each tier, and a key no tier of this version uses
StoredTiers ==
  [positive |-> DictSet(<<>>, get_cache_key(JaneDoe),
                        [data |-> <<cJaneDoe>>, timestamp |-> 0]),
   negative |-> DictSet(<<>>, get_cache_key(JaneDoe), [timestamp |-> 0]),
   manual |-> DictSet(<<>>, get_cache_key(JaneDoe),
                      [data |-> ManualCandidates(ManualData(JaneDoe, 7)),
                       timestamp |-> 0, source |-> "manual"]),
   version |-> <<>>]

EmptyTiers ==
  [positive |-> <<>>, negative |-> <<>>, manual |-> <<>>, version |-> <<>>]

\* the files the loads are made on
CacheFiles ==
  {MissingFile, UnreadableFile, JsonNull}
    \cup {JsonArray(items) :
            items \in {<<>>, <<"positive">>, <<"positive", "negative">>,
                       <<"manual", "negative", "positive">>}}
    \cup {JsonObject(Restrict(StoredTiers, keys)) :
            keys \in SUBSET (DOMAIN StoredTiers)}
    \cup {JsonObject(Restrict(EmptyTiers, keys)) :
            keys \in SUBSET (DOMAIN EmptyTiers)}
    \cup {JsonObject(Restrict([StoredTiers EXCEPT !.negative = <<>>], keys)) :
            keys \in SUBSET (DOMAIN StoredTiers)}
    \cup {JsonObject(Restrict([StoredTiers EXCEPT !.positive = <<>>], keys)) :
            keys \in SUBSET (DOMAIN StoredTiers)}
    \cup {JsonObject(Restrict([StoredTiers EXCEPT !.manual = <<>>], keys)) :
            keys \in SUBSET (DOMAIN StoredTiers)}
    \cup {JsonObject(Restrict([StoredTiers EXCEPT !.positive = <<>>,
                                                  !.negative = <<>>], keys)) :
            keys \in SUBSET (DOMAIN StoredTiers)}
    \cup {JsonObject(Restrict([StoredTiers EXCEPT !.positive = <<>>,
                                                  !.manual = <<>>], keys)) :
            keys \in SUBSET (DOMAIN StoredTiers)}
    \cup {JsonObject(Restrict([StoredTiers EXCEPT !.negative = <<>>,
                                                  !.manual = <<>>], keys)) :
            keys \in SUBSET (DOMAIN StoredTiers)}

InitLoad ==
  /\ Quiet
  /\ \E store \in CacheFiles : last = Call("input", store, Absent, 0)

\* self._cache = self._load_cache()
LoadCache ==
  /\ last.op = "input"
  /\ last' = Call("load_cache", last.name, Hit(load_cache(last.name)), 0)
  /\ UNCHANGED <<now, cache, cacheFile, putLog, manualLog, searchLog>>
  /\ UNCHANGED batchVars
  /\ UNCHANGED outsideVars

NextLoad ==
  LoadCache

SpecLoad == InitLoad /\ [][NextLoad]_vars

\* C25: loading never fails: a missing or unreadable cache file gives a
\* cache with three empty tiers, and a file holding an object that lacks
\* some of the tiers is loaded with each missing tier inserted empty and
\* every tier (and other key) that is present kept as it is.
C25_LoadRepairsTiers ==
  last.op = "load_cache"
    => /\ last.name.kind \in {"missing", "unreadable"}
            => last.ret.data = default_cache
       /\ last.name.kind = "object"
            => /\ \A i \in 1..Len(Tiers) :
                    /\ Tiers[i] \in DOMAIN last.ret.data
                    /\ Tiers[i] \notin DOMAIN last.name.value
                         => last.ret.data[Tiers[i]] = <<>>
               /\ \A k \in DOMAIN last.name.value :
                    /\ k \in DOMAIN last.ret.data
                    /\ last.ret.data[k] = last.name.value[k]

\* a file that holds only a manual tier with an entry, loaded with that
\* entry kept and the two other tiers inserted empty
C25_Witness ==
  /\ last.op = "load_cache"
  /\ last.name = JsonObject(Restrict(StoredTiers, {"manual"}))
  /\ last.ret.data = [default_cache EXCEPT !.manual = StoredTiers.manual]

\* ------------------------------------------------------------------------
\* The matcher on its own: the tiers on a search result, and the quality
\* check on a pair of names and a score
\* ------------------------------------------------------------------------

\* "Madona"
Madona ==
  <<"M","a","d","o","n","a">>

\* "Prof Johnson"
ProfJohnson ==
  <<"P","r","o","f"," ","J","o","h","n","s","o","n">>

\* a candidate with one name
cMadonna ==
  Candidate(<<"M","a","d","o","n","n","a">>, <<>>,
            Some(401), Some(40), Some(30), Some(70))

cJohnsom ==
  Candidate(<<>>, <<"J","o","h","n","s","o","m">>,
            Some(402), Some(40), Some(30), Some(70))

cJaneAnnDoyle ==
  Candidate(<<"J","a","n","e">>, <<"A","n","n"," ","D","o","y","l","e">>,
            Some(403), Some(40), Some(30), Some(70))

cDoeJane ==
  Candidate(<<"D","o","e">>, <<"J","a","n","e">>,
            Some(404), Some(40), Some(30), Some(70))

MatchTargets ==
  {JaneDoe, JonSmith, BobSmith, Madona, ProfJohnson}

MatchPool ==
  {cJaneDoe, cJaneDoyle, cJohnSmith, cJonSmyth, cRobertSmith, cMadonna,
   cJohnsom}

\* the search results: up to two candidates of the pool, in either order
SearchResults ==
  {<<>>} \cup {<<c>> : c \in MatchPool}
         \cup {<<c, d>> : c \in MatchPool, d \in MatchPool}

MatchInputs ==
  {[kind |-> "match", target |-> t, found |-> f] :
     t \in MatchTargets, f \in SearchResults}

QualityCandidates ==
  {cJaneDoe, cJaneDoyle, cJaneAnnDoyle, cDoeJane, cMadonna, cJohnsom}

\* the quality checks: each pair of names with its similarity, as
\* update_prof_by_name computes it, and with scores on both sides of the
\* threshold
QualityInputs ==
  {[kind |-> "quality", target |-> t, candidate_name |-> CandidateName(c),
    score |-> s] :
     t \in {JaneDoe, Madona, ProfJohnson}, c \in QualityCandidates,
     s \in {Frac(0, 1), Frac(84, 100), Frac(85, 100), Frac(1, 1)}}
    \cup {[kind |-> "quality", target |-> t,
           candidate_name |-> CandidateName(c), score |-> FuzzyScore(t, c)] :
            t \in {JaneDoe, Madona, ProfJohnson}, c \in QualityCandidates}

InitMatch ==
  /\ Quiet
  /\ \E x \in MatchInputs \cup QualityInputs : last = Call("input", x, Absent, 0)

\* the matching of update_prof_by_name on a search result
MatchTiers ==
  /\ last.op = "input"
  /\ last.name.kind = "match"
  /\ last' = Call("match", last.name,
                  Hit(match_tiers(last.name.target, last.name.found)), 0)
  /\ UNCHANGED <<now, cache, cacheFile, putLog, manualLog, searchLog>>
  /\ UNCHANGED batchVars
  /\ UNCHANGED outsideVars

\* _validate_match_quality(target_name, candidate_name, score)
ValidateQuality ==
  /\ last.op = "input"
  /\ last.name.kind = "quality"
  /\ last' = Call("quality", last.name,
                  Hit(validate_match_quality(last.name.target,
                                             last.name.candidate_name,
                                             last.name.score)), 0)
  /\ UNCHANGED <<now, cache, cacheFile, putLog, manualLog, searchLog>>
  /\ UNCHANGED batchVars
  /\ UNCHANGED outsideVars

NextMatch ==
  \/ MatchTiers
  \/ ValidateQuality

SpecMatch == InitMatch /\ [][NextMatch]_vars

\* the words of a canonical name
Words(name) ==
  Split(canonicalize_name(name))

\* the last word of a list of words, nothing when the list is empty
LastWord(words) ==
  IF words = <<>> THEN <<>> ELSE words[Len(words)]

\* the confidence and the issues the claim gives for a quality check with
\* the three conditions, the middle one being lastDiffer
ExpectedQuality(x, lastDiffer) ==
  LET structure == Len(Words(x.target)) # Len(Words(x.candidate_name))
      low == ~FracGE(x.score, 85, 100)
      c1 == IF structure THEN FracMul(x.score, 9, 10) ELSE x.score
      c2 == IF lastDiffer THEN FracMul(c1, 7, 10) ELSE c1
      c3 == IF low THEN FracMul(c2, 8, 10) ELSE c2
  IN  [confidence |-> c3,
       issues |-> (IF structure THEN {"different_name_structure"} ELSE {})
                  \cup (IF lastDiffer THEN {"different_last_name"} ELSE {})
                  \cup (IF low THEN {"low_similarity_score"} ELSE {})]

RECURSIVE Gcd(_, _)
Gcd(a, b) ==
  IF b = 0 THEN a ELSE Gcd(b, a % b)

\* a fraction in lowest terms
Reduced(x) ==
  IF x.num = 0 THEN Frac(0, 1)
  ELSE Frac(x.num \div Gcd(x.num, x.den), x.den \div Gcd(x.num, x.den))

\* the result of a quality check is the expected one, and in [0, 1]
QualityIs(ret, expected) ==
  /\ Reduced(ret.confidence) = Reduced(expected.confidence)
  /\ {ret.issues[i] : i \in 1..Len(ret.issues)} = expected.issues
  /\ Len(ret.issues) = Cardinality(expected.issues)
  /\ 0 <= ret.confidence.num
  /\ ret.confidence.num <= ret.confidence.den

\* C28 as stated: for names whose canonical forms differ, confidence =
\* score x 0.9 (token counts differ) x 0.7 (last tokens differ) x 0.8
\* (score < 0.85), each factor exactly when its condition holds, the issues
\* listing exactly these conditions, the confidence in [0, 1].
C28_ConfidenceFactors ==
  ( /\ last.op = "quality"
    /\ canonicalize_name(last.name.target)
         # canonicalize_name(last.name.candidate_name) )
    => QualityIs(last.ret.data,
                 ExpectedQuality(last.name,
                   LastWord(Words(last.name.target))
                     # LastWord(Words(last.name.candidate_name))))

\* C28, amended: the factor 0.7 and the issue different_last_name apply
\* exactly when both canonical names have at least two tokens and their
\* last tokens differ; the rest as stated.
C28_ConfidenceFactorsOfFullNames ==
  ( /\ last.op = "quality"
    /\ canonicalize_name(last.name.target)
         # canonicalize_name(last.name.candidate_name) )
    => QualityIs(last.ret.data,
                 ExpectedQuality(last.name,
                   /\ Len(Words(last.name.target)) >= 2
                   /\ Len(Words(last.name.candidate_name)) >= 2
                   /\ LastWord(Words(last.name.target))
                        # LastWord(Words(last.name.candidate_name))))

\* "Jane Doe" checked against "Jane Ann Doyle" with their similarity, which
\* is below 0.85: the three factors apply
C28_Witness ==
  /\ last.op = "quality"
  /\ last.name.target = JaneDoe
  /\ last.name.candidate_name = CandidateName(cJaneAnnDoyle)
  /\ last.name.score = FuzzyScore(JaneDoe, cJaneAnnDoyle)
  /\ Len(last.ret.data.issues) = 3
  /\ Reduced(last.ret.data.confidence)
       = Reduced(FracMul(last.name.score, 504, 1000))

\* the candidates of a list
Among(found) ==
  {found[i] : i \in 1..Len(found)}

\* what the fuzzy tier yields: the enhanced matches when it was attempted
FuzzyYield(ret) ==
  IF ret.fuzzy_attempted THEN ret.enhanced_matches ELSE <<>>

\* the fuzzy tier yields at most one candidate, of score at least 0.85 and
\* of the highest score of the search result
FuzzyYieldsBest(x, ret) ==
  /\ Len(FuzzyYield(ret)) <= 1
  /\ \A c \in Among(FuzzyYield(ret)) :
       /\ FracGE(FuzzyScore(x.target, c), 85, 100)
       /\ \A d \in Among(x.found) :
            \E s \in {FuzzyScore(x.target, d)} :
              FracGE(FuzzyScore(x.target, c), s.num, s.den)

\* C29: on a search result that holds candidates, the fuzzy tier is
\* attempted exactly when the exact and nickname tiers matched no candidate;
\* it yields no candidate of score below 0.85 and at most one candidate, of
\* the maximum score among the candidates of the search result.
C29_FuzzyWhenNothingMatched ==
  (last.op = "match" /\ last.name.found # <<>>)
    => /\ last.ret.data.fuzzy_attempted
            <=> ( /\ last.ret.data.exact_matches = <<>>
                  /\ last.ret.data.nickname_matches = <<>> )
       /\ FuzzyYieldsBest(last.name, last.ret.data)

\* ------------------------------------------------------------------------
\* ManualOverrideService and the command line
\* ------------------------------------------------------------------------

\* the delimiter and the quote character of the csv module's default dialect
Comma == ","

Quote == "\""

RECURSIVE DoubleQuotes(_)
\* the quote characters of a field doubled
DoubleQuotes(field) ==
  Only({ IF f = <<>> THEN <<>>
         ELSE IF Head(f) = Quote THEN <<Quote, Quote>> \o DoubleQuotes(Tail(f))
         ELSE <<Head(f)>> \o DoubleQuotes(Tail(f)) :
           f \in {field} })

\* a field as csv.writer writes it (QUOTE_MINIMAL): quoted when it holds the
\* delimiter or a quote character
CsvField(field) ==
  IF \E i \in 1..Len(field) : field[i] \in {Comma, Quote}
  THEN <<Quote>> \o DoubleQuotes(field) \o <<Quote>>
  ELSE field

RECURSIVE writerow(_)
\* csv.writer.writerow: the line written for a list of fields
writerow(fields) ==
  Only({ IF Len(f) = 0 THEN <<>>
         ELSE IF Len(f) = 1 THEN CsvField(f[1])
         ELSE CsvField(f[1]) \o <<Comma>> \o writerow(Tail(f)) :
           f \in {fields} })

\* the index of the first delimiter of the line at or after i, or the index
\* after the end of the line
NextComma(line, i) ==
  LET at == {j \in i..Len(line) : line[j] = Comma}
  IN  IF at = {} THEN Len(line) + 1
      ELSE CHOOSE j \in at : \A k \in at : j <= k

\* the index of the quote that closes the quoted field opened at i, or the
\* index after the end of the line: in a quoted field a quote followed by
\* a quote stands for one quote, and any other quote closes the field
ClosingQuote(line, i) ==
  LET at == {j \in (i + 1)..Len(line) :
               /\ line[j] = Quote
               /\ Cardinality({k \in (i + 1)..j : line[k] = Quote}) % 2 = 1
               /\ (j = Len(line) \/ line[j + 1] # Quote)}
  IN  IF at = {} THEN Len(line) + 1
      ELSE CHOOSE j \in at : \A k \in at : j <= k

\* the text of a quoted field: the second quote of each pair is dropped
Undouble(text) ==
  LET kept == {k \in 1..Len(text) :
                 ~ /\ text[k] = Quote
                   /\ Cardinality({m \in 1..k : text[m] = Quote}) % 2 = 0}
  IN  [n \in 1..Cardinality(kept) |->
         text[CHOOSE k \in kept : Cardinality({m \in kept : m <= k}) = n]]

RECURSIVE ReadFields(_, _, _)
\* csv.reader on one line, field by field from index i: a field that starts
\* with a quote runs to its closing quote, and what follows the closing
\* quote up to the delimiter is added to it as it stands; any other field
\* runs to the delimiter, its quotes standing for themselves
ReadFields(line, i, out) ==
  Only({ IF from <= Len(l) /\ l[from] = Quote
         THEN LET q == ClosingQuote(l, from)
                  e == NextComma(l, q + 1)
                  field == Undouble(SubSeq(l, from + 1, q - 1))
                             \o SubSeq(l, q + 1, e - 1)
              IN  IF e > Len(l) THEN Append(o, field)
                  ELSE ReadFields(l, e + 1, Append(o, field))
         ELSE LET e == NextComma(l, from)
                  field == SubSeq(l, from, e - 1)
              IN  IF e > Len(l) THEN Append(o, field)
                  ELSE ReadFields(l, e + 1, Append(o, field)) :
           l \in {line}, from \in {i}, o \in {out} })

\* the row csv.reader yields for a line (none for an empty line)
reader(line) ==
  IF line = <<>> THEN <<>> ELSE ReadFields(line, 1, <<>>)

\* the dict csv.DictReader makes of a row: the field under each header name,
\* None for the names the row is too short for
DictRow(fieldnames, row) ==
  [h \in {fieldnames[i] : i \in 1..Len(fieldnames)} |->
     LET i == CHOOSE j \in 1..Len(fieldnames) :
                /\ fieldnames[j] = h
                /\ \A k \in (j + 1)..Len(fieldnames) : fieldnames[k] # h
     IN  IF i <= Len(row) THEN Some(row[i]) ELSE Null]

\* "professor_name", "rmp_id", "notes"
professor_name_header ==
  <<"p","r","o","f","e","s","s","o","r","_","n","a","m","e">>

rmp_id_header ==
  <<"r","m","p","_","i","d">>

notes_header ==
  <<"n","o","t","e","s">>

\* "Manual research needed"
manual_research_needed ==
  <<"M","a","n","u","a","l"," ","r","e","s","e","a","r","c","h"," ","n","e","e","d","e","d">>

\* session.query(Professor).filter(Professor.name == name).first()
FirstByName(table, name) ==
  LET ids == {p \in DOMAIN table : table[p].name = name}
  IN  IF ids = {} THEN Null
      ELSE Some(CHOOSE p \in ids : \A q \in ids : p <= q)

\* what a manual operation works on: the professor table, the _cache of
\* the process, the cache file, and the record of the manual entries made
Process(table, c, file, log, ret) ==
  [profs |-> table, cache |-> c, file |-> file, log |-> log, ret |-> ret]

\* RMP.add_manual_rmp_link at time t, dbOk telling whether the commit
\* succeeds: the manual cache entry is made and saved before the link is
\* written, and a failed commit is rolled back
add_manual_rmp_link(st, professor_name, rmp_id, t, dbOk) ==
  LET prof == FirstByName(st.profs, professor_name)
      rmp_data == ManualData(st.profs[prof[1]].name, ParseInt(rmp_id))
      c == add_manual_cache_entry(st.cache, professor_name, rmp_data, t)
  IN  IF prof = Null \/ ~isdigit(rmp_id)
      THEN [st EXCEPT !.ret = FALSE]
      ELSE Process(IF dbOk
                   THEN [st.profs EXCEPT
                           ![prof[1]].RMP_link = Some(ProfileLink(rmp_id))]
                   ELSE st.profs,
                   c, save_cache(c),
                   DictSet(st.log, get_cache_key(professor_name), rmp_data),
                   dbOk)

RECURSIVE ImportRows(_, _, _, _, _, _)
\* the loop of import_manual_mappings over the lines after the header: a
\* row with an empty name or id is skipped, and a row too short for one of
\* the three columns ends the import (None has no strip())
ImportRows(st, fieldnames, lines, successful_imports, t, dbOk) ==
  Only({ IF l = <<>> THEN [s EXCEPT !.ret = n]
         ELSE \* DictReader skips the empty lines
              IF reader(Head(l)) = <<>>
              THEN ImportRows(s, names, Tail(l), n, at, ok)
              ELSE LET row == DictRow(names, reader(Head(l)))
                       professor_name == Strip(row[professor_name_header][1])
                       rmp_id == Strip(row[rmp_id_header][1])
                   IN  IF \/ row[professor_name_header] = Null
                          \/ row[rmp_id_header] = Null
                          \/ /\ notes_header \in DOMAIN row
                             /\ row[notes_header] = Null
                       THEN [s EXCEPT !.ret = n]
                       ELSE IF professor_name = <<>> \/ rmp_id = <<>>
                       THEN ImportRows(s, names, Tail(l), n, at, ok)
                       ELSE Only({ ImportRows(added, names, Tail(l),
                                              IF added.ret THEN n + 1 ELSE n,
                                              at, ok) :
                                     added \in {add_manual_rmp_link(
                                                  s, professor_name, rmp_id,
                                                  at, ok)} }) :
           s \in {st}, names \in {fieldnames}, l \in {lines},
           n \in {successful_imports}, at \in {t}, ok \in {dbOk} })

\* RMP.import_manual_mappings of the CSV file (Null: there is no file): the
\* state it leaves, and the number of rows imported
import_manual_mappings(st, file, t, dbOk) ==
  Only({ IF f = Null \/ f[1] = <<>>
         THEN [s EXCEPT !.ret = 0]
         ELSE LET fieldnames == reader(f[1][1])
              IN  IF \E h \in {professor_name_header, rmp_id_header} :
                       \A i \in 1..Len(fieldnames) : fieldnames[i] # h
                  THEN [s EXCEPT !.ret = 0]
                  ELSE ImportRows(s, fieldnames, Tail(f[1]), 0, t, dbOk) :
           s \in {st}, f \in {file} })

\* RMP.export_unmatched_professors: the professors without a profile link,
\* ordered by name, the file it leaves and the number it returns.  With no
\* such professor it returns before it opens the file.
export_unmatched_professors(table, file) ==
  LET unmatched_profs ==
        OrderByName(table, {p \in DOMAIN table : table[p].RMP_link = Null})
  IN  IF unmatched_profs = <<>>
      THEN [ret |-> 0, csv |-> file, unmatched_profs |-> <<>>]
      ELSE [ret |-> Len(unmatched_profs),
            csv |-> Some(
              << writerow(<<professor_name_header, rmp_id_header,
                            notes_header>>) >>
              \o [i \in 1..Len(unmatched_profs) |->
                    writerow(<<unmatched_profs[i].name, <<>>,
                               manual_research_needed>>)]),
            unmatched_profs |-> unmatched_profs]

\* the flags of a command line
Argv(stats_only, add_manual, rmp_id, import_manual, export_unmatched, dry_run, fix_duplicates, rmp_only, debug) ==
  [stats_only |-> stats_only, add_manual |-> add_manual, rmp_id |-> rmp_id,
   import_manual |-> import_manual, export_unmatched |-> export_unmatched,
   dry_run |-> dry_run, fix_duplicates |-> fix_duplicates,
   rmp_only |-> rmp_only, debug |-> debug]

\* the exit of main before update_profs: the branch taken, the status
\* returned, the state left and the CSV file
Exit(branch, code, st, file, exported) ==
  [branch |-> branch, code |-> code, st |-> st, csv |-> file,
   exported |-> exported]

\* main up to update_profs, the RMP object holding the loaded cache: the
\* statistics, the manual operations and the dry run are tested in this
\* order, and each returns
main(argv, st, file, t, dbOk) ==
  IF argv.stats_only
  THEN Exit("stats_only", 0, st, file, <<>>)
  ELSE IF argv.add_manual # Null
  THEN IF argv.rmp_id = Null
       THEN Exit("add_manual", 1, st, file, <<>>)
       ELSE Only({ Exit("add_manual", IF added.ret THEN 0 ELSE 1, added,
                        file, <<>>) :
                     added \in {add_manual_rmp_link(st, argv.add_manual[1],
                                                    argv.rmp_id[1], t,
                                                    dbOk)} })
  ELSE IF argv.import_manual
  THEN Only({ Exit("import_manual", 0, imported, file, <<>>) :
                imported \in {import_manual_mappings(st, file, t, dbOk)} })
  ELSE IF argv.export_unmatched
  THEN Only({ Exit("export_unmatched", 0, st, written.csv,
                   written.unmatched_profs) :
                written \in {export_unmatched_professors(st.profs, file)} })
  ELSE IF argv.dry_run
  THEN Exit("dry_run", 0, st, file, <<>>)
  ELSE Exit("update_profs", 0, st, file, <<>>)

\* ------------------------------------------------------------------------
\* Command lines run one after the other on one store, the CSV file being
\* filled in between
\* ------------------------------------------------------------------------

\* the most command lines run on a store
MaxCommands == 3

\* "Jr., Al Doe"
JrAlDoe ==
  <<"J","r",".",","," ","A","l"," ","D","o","e">>

\* the stores the command lines are run on
CliStores ==
  { << ProfRow(JaneDoe, NoEnrichment), ProfRow(BobSmith, PriorEnrichment) >>,
    << ProfRow(JrAlDoe, NoEnrichment), ProfRow(JaneDoeLoose, NoEnrichment) >>,
    << ProfRow(BobSmith, PriorEnrichment) >> }

\* the ids a command line or the CSV file may name: "7", "8", "x"
RmpIds ==
  {<<"7">>, <<"8">>, <<"x">>}

\* a command line with the flag given, --dry-run or not
Flag(flag, dry_run) ==
  Argv(flag = "stats_only", Null, Null, flag = "import_manual",
       flag = "export_unmatched", dry_run, flag = "fix_duplicates",
       flag = "rmp_only", flag = "debug")

\* --add-manual with or without --rmp-id, --dry-run or not
AddManual(professor_name, rmp_id, dry_run) ==
  Argv(FALSE, Some(professor_name), rmp_id, FALSE, FALSE, dry_run, FALSE,
       FALSE, FALSE)

\* the command lines: each operation alone, with and without --dry-run
CommandLines ==
  { Flag(flag, dry_run) :
      flag \in {"stats_only", "import_manual", "export_unmatched",
                "fix_duplicates", "rmp_only", "debug"},
      dry_run \in BOOLEAN }
  \cup { AddManual(JaneDoe, rmp_id, dry_run) :
           rmp_id \in {Null, Some(<<"7">>), Some(<<"x">>)},
           dry_run \in BOOLEAN }

InitCli ==
  /\ now = 0
  /\ cache = default_cache
  /\ cacheFile = default_cache
  /\ last = Call("start", <<>>, Absent, 0)
  /\ putLog = <<>>
  /\ manualLog = <<>>
  /\ searchLog = <<>>
  /\ profs \in CliStores
  /\ dists = <<>>
  /\ pc = "shell"
  /\ snapshot = <<>>
  /\ task = <<>>
  /\ outcome = <<>>
  /\ args = MainArgs(FALSE, FALSE, FALSE)
  /\ phases = <<>>
  /\ merged = NoMerge
  /\ Outside

\* one run of main up to the call of update_profs: RMP() loads the cache
\* file, and the branch taken works on the store, the cache and the CSV file
\* and returns, or hands over to update_profs
Main(argv, dbOk) ==
  /\ pc = "shell"
  /\ commands < MaxCommands
  /\ commands' = commands + 1
  /\ \E done \in {main(argv,
                       Process(profs, load_cache(JsonObject(cacheFile)),
                               cacheFile, manualLog, FALSE),
                       csv, now, dbOk)} :
       /\ profs' = done.st.profs
       /\ cache' = done.st.cache
       /\ cacheFile' = done.st.file
       /\ manualLog' = done.st.log
       /\ csv' = done.csv
       /\ listed' = IF done.exported # <<>>
                    THEN [ids |-> [i \in 1..Len(done.exported) |->
                                     done.exported[i].id],
                          filled |-> <<>>]
                    ELSE listed
       /\ last' = Call(done.branch, [argv |-> argv, dbOk |-> dbOk],
                       IF done.branch = "update_profs" THEN Absent
                       ELSE Hit(done.code), 0)
       /\ pc' = IF done.branch = "update_profs" THEN "idle" ELSE "shell"
       /\ args' = IF done.branch = "update_profs"
                  THEN MainArgs(argv.fix_duplicates, argv.rmp_only,
                                argv.debug)
                  ELSE args
  /\ UNCHANGED <<now, putLog, searchLog, snapshot, task, outcome, dists,
                 phases, merged, workerCache, provider>>

\* the end of main after update_profs: it returns 0, or 1 when update_profs
\* raised
MainReturn ==
  /\ pc \in {"returned", "raised"}
  /\ pc' = "exited"
  /\ last' = Call("exit", last.name, Hit(IF pc = "raised" THEN 1 ELSE 0), 0)
  /\ UNCHANGED <<now, cache, cacheFile, putLog, manualLog, searchLog>>
  /\ UNCHANGED <<profs, snapshot, task, outcome, dists, args, phases, merged,
                 workerCache>>
  /\ UNCHANGED outsideVars

\* the user fills the rmp_id column of the exported file, row by row, with
\* the ids given, and saves it
FillIds(ids) ==
  /\ pc = "shell"
  /\ csv # Null
  /\ listed.ids # <<>>
  /\ listed.filled = <<>>
  /\ Len(ids) = Len(listed.ids)
  /\ csv' = Some(<< csv[1][1] >>
                 \o [i \in 1..Len(ids) |->
                       writerow([reader(csv[1][i + 1]) EXCEPT ![2] = ids[i]])])
  /\ listed' = [listed EXCEPT !.filled = ids]
  /\ last' = Call("fill", ids, Absent, 0)
  /\ UNCHANGED <<now, cache, cacheFile, putLog, manualLog, searchLog>>
  /\ UNCHANGED batchVars
  /\ UNCHANGED <<provider, commands>>

\* the ways to fill n rows
Fillings(n) ==
  [1..n -> RmpIds]

\* the provider raises, or finds nobody or one professor
CliAnswers ==
  {<<>>, <<cJaneDoe>>}

NextCli ==
  \/ \E argv \in CommandLines, dbOk \in BOOLEAN : Main(argv, dbOk)
  \/ \E ids \in Fillings(Len(listed.ids)) : FillIds(ids)
  \/ \E commitOk \in BOOLEAN : MergeDuplicates(commitOk)
  \/ StartResolving
  \/ \E i \in 1..Len(snapshot) : TaskStart(i)
  \/ \E i \in 1..Len(snapshot) :
       \E reply \in Replies(CliAnswers) : TaskEnd(i, reply, TRUE)
  \/ MapReturn
  \/ MapRaise
  \/ VerifyIntegrity
  \/ MainReturn

SpecCli == InitCli /\ [][NextCli]_vars

\* ------------------------------------------------------------------------
\* Runs in RMP-only mode with a deterministic provider and a store that
\* always commits: only the order of the workers' steps is left open
\* ------------------------------------------------------------------------

\* "Al A", "Al a", "Al b", ...: the first two share a cache key and a chunk
DetName(i) ==
  IF i = 1 THEN <<"A", "l", " ", "A">> ELSE <<"A", "l", " ", Letters[i - 1]>>

cAlA ==
  Candidate(<<"A","l">>, <<"A">>, Some(501), Some(40), Some(30), Some(70))

\* a store of three professors, two of them under one cache key, and a
\* store large enough for chunks of two
DetStores ==
  { << ProfRow(JaneDoe, NoEnrichment), ProfRow(JaneDoeLoose, PriorEnrichment),
       ProfRow(BobSmith, NoEnrichment) >>,
    [i \in 1..PoolProfs |-> ProfRow(DetName(i), NoEnrichment)] }

\* the texts the searches for the professors of a store send
SearchTexts(table) ==
  {SearchText(table[p].name) : p \in DOMAIN table}

\* the answers a provider of these runs gives: it raises, or it finds
\* nobody or one professor
DetAnswers(table) ==
  {ProviderRaises, ProviderReturns(<<>>),
   ProviderReturns(IF Len(table) = 3 THEN <<cJaneDoe>> ELSE <<cAlA>>)}

\* the providers: each gives one answer to the texts "Doe" and "A", one to
\* the texts "doe" and "a" (which it does not raise on in the large
\* store), and finds nobody for any other text
DetProviders(table) ==
  { [text \in SearchTexts(table) |->
       IF text \in {<<"D","o","e">>, <<"A">>} THEN upper
       ELSE IF text \in {<<"d","o","e">>, <<"a">>} THEN lower
       ELSE ProviderReturns(<<>>)] :
      upper \in DetAnswers(table),
      lower \in IF Len(table) = 3 THEN DetAnswers(table)
                ELSE DetAnswers(table) \ {ProviderRaises} }

\* the caches the parent process holds when the run starts: the empty one,
\* and one that knows "jane doe" and "al a"
DetCaches ==
  { default_cache,
    cache_result(cache_result(default_cache, JaneDoe, <<cJaneDoeTwin>>, 0),
                 DetName(1), <<>>, 0) }

InitDet ==
  /\ now = 0
  /\ cache \in DetCaches
  /\ cacheFile = cache
  /\ last = Call("start", <<>>, Absent, 0)
  /\ putLog = <<>>
  /\ manualLog = <<>>
  /\ searchLog = <<>>
  /\ profs \in DetStores
  /\ dists = <<>>
  /\ pc = "idle"
  /\ snapshot = <<>>
  /\ task = <<>>
  /\ outcome = <<>>
  /\ args = MainArgs(FALSE, TRUE, FALSE)
  /\ phases = <<>>
  /\ merged = NoMerge
  /\ workerCache = <<>>
  /\ provider \in DetProviders(profs)
  /\ csv = Null
  /\ listed = NoExport
  /\ commands = 0

NextDet ==
  \/ \E commitOk \in BOOLEAN : MergeDuplicates(commitOk)
  \/ StartResolving
  \/ \E i \in 1..Len(snapshot) :
       Cardinality(RunningChunks) < MaxBusy /\ TaskStart(i)
  \/ \E i \in 1..Len(snapshot) :
       TaskEnd(i, provider[SearchText(snapshot[i].name)], TRUE)
  \/ MapReturn
  \/ MapRaise
  \/ VerifyIntegrity

SpecDet == InitDet /\ [][NextDet]_vars

RECURSIVE SerialChunk(_, _, _, _, _)
\* the store after one worker has resolved the professors of a chunk one
\* after the other on its copy c of the cache, with nothing else running
SerialChunk(table, c, items, replies, t) ==
  Only({ IF todo = <<>> THEN rows
         ELSE Only({
                Only({ IF done.raised
                       THEN [rows EXCEPT ![Head(todo).id] = done.row]
                       ELSE SerialChunk(
                              [rows EXCEPT ![Head(todo).id] = done.row],
                              search.cache, Tail(todo), answers, at) :
                         done \in {update_prof_by_name(
                                     rows[Head(todo).id], Head(todo).name,
                                     search, TRUE)} }) :
                  search \in {get_prof_by_school_and_name(
                                copy, copy, Head(todo).name, at,
                                answers[SearchText(Head(todo).name)])} }) :
           rows \in {table}, copy \in {c}, todo \in {items},
           answers \in {replies}, at \in {t} })

RECURSIVE SerialRun(_, _, _, _, _, _)
\* the store after a sequential run: the chunks of the map are resolved one
\* after the other, each on a fresh copy of the parent's cache
SerialRun(table, order, chunksize, c, replies, t) ==
  Only({ IF todo = <<>> THEN rows
         ELSE SerialRun(SerialChunk(rows, copy,
                                    SubSeq(todo, 1,
                                           IF size < Len(todo) THEN size
                                           ELSE Len(todo)),
                                    answers, at),
                        SubSeq(todo, size + 1, Len(todo)), size, copy,
                        answers, at) :
           rows \in {table}, todo \in {order}, size \in {chunksize},
           copy \in {c}, answers \in {replies}, at \in {t} })

\* C21: with a deterministic provider the professor store at the end of a
\* resolution batch is, for every interleaving of the workers and of their
\* writes of the cache file, the store a sequential run leaves
C21_StoreIndependentOfInterleaving ==
  pc \in {"completed", "raised", "returned"}
    => profs = SerialRun(merged.profs, snapshot, ChunkSize(Len(snapshot)),
                         cache, provider, now)

\* a run has ended in which a professor was updated after a provider call
\* whose answer is no longer in the cache file (the copy a later worker
\* wrote replaced it), and the store is the one of the sequential run
C21_Witness ==
  /\ pc = "completed"
  /\ \E p \in DOMAIN outcome :
       /\ outcome[p].result = "updated"
       /\ outcome[p].calls = 1
       /\ get_cache_key(profs[p].name) \notin DOMAIN cacheFile.positive
  /\ profs = SerialRun(merged.profs, snapshot, ChunkSize(Len(snapshot)),
                       cache, provider, now)

\* ------------------------------------------------------------------------
\* Properties of the command line and of the manual operations
\* ------------------------------------------------------------------------

\* C27: a command line run with --dry-run makes no change to the professor
\* store or to the cache, whatever other flags are given with it
C27_DryRunChangesNothing ==
  [][ (commands' # commands /\ last'.name.argv.dry_run)
        => (profs' = profs /\ cacheFile' = cacheFile) ]_vars

\* C22: exporting the unmatched professors and importing the same file with
\* every rmp_id column filled with a numeric id leaves every listed
\* professor with the profile link <provider-base>/professor/<rmp_id>
C22_ExportImportRoundTrip ==
  [][ ( /\ commands' # commands
        /\ last'.op = "import_manual"
        /\ last'.name.dbOk
        /\ listed.filled # <<>>
        /\ \A k \in 1..Len(listed.filled) : isdigit(listed.filled[k]) )
        => \A k \in 1..Len(listed.ids) :
             profs'[listed.ids[k]].RMP_link
               = Some(ProfileLink(listed.filled[k])) ]_vars

\* ------------------------------------------------------------------------
\* The cache under names that share a canonical name
\* ------------------------------------------------------------------------

\* names of one professor: as stored, in another case and with outer
\* whitespace, and with an academic title; the calls are made at one time
KeyNames ==
  {JaneDoe, JaneDoeLoose, DrJaneDoe}

NextKeys ==
  \/ \E name \in KeyNames, result \in CacheResults : Put(name, result)
  \/ \E name \in KeyNames : PutManual(name, ManualData(name, 7))
  \/ \E name \in KeyNames : Get(name)

SpecKeys == InitCache /\ [][NextKeys]_vars

\* C31: cache entries are keyed by the canonical name: a put or a putManual
\* under one name, which a get under that name returns, is returned as well
\* by a get under every other name with the same canonical name
C31_KeyedByCanonicalName ==
  [][ \A m \in KeyNames :
        ( /\ last'.op \in {"put", "putManual"}
          /\ canonicalize_name(m) = canonicalize_name(last'.name)
          /\ get_cached_result(cache', last'.name, now').ret
               = Hit(IF last'.op = "put"
                     THEN putLog'[get_cache_key(last'.name)].data
                     ELSE ManualCandidates(manualLog'[get_cache_key(last'.name)])) )
        => get_cached_result(cache', m, now').ret
             = get_cached_result(cache', last'.name, now').ret ]_vars

\* ------------------------------------------------------------------------
\* Runs with the duplicate pass on stores of one and of two duplicate groups
\* ------------------------------------------------------------------------

\* "bob smith"
BobSmithLoose ==
  <<"b","o","b"," ","s","m","i","t","h">>

\* two duplicate groups of two records each, in the order the pass takes
\* them
StoreTwoGroups ==
  [profs |-> << ProfRow(JaneDoe, NoEnrichment),
                ProfRow(BobSmith, NoEnrichment),
                ProfRow(JaneDoeLoose, NoEnrichment),
                ProfRow(BobSmithLoose, NoEnrichment) >>,
   dists |-> << DistRow(1, 1, Some(1)), DistRow(2, 1, Some(4)) >>]

MergeStores ==
  {StoreTwoGroups, StoreTie, StoreDistinct}

InitMerge ==
  /\ now = 0
  /\ cache = default_cache
  /\ cacheFile = default_cache
  /\ last = Call("start", <<>>, Absent, 0)
  /\ putLog = <<>>
  /\ manualLog = <<>>
  /\ searchLog = <<>>
  /\ \E store \in MergeStores :
       /\ profs = store.profs
       /\ dists = store.dists
  /\ pc = "idle"
  /\ snapshot = <<>>
  /\ task = <<>>
  /\ outcome = <<>>
  /\ \E fix_duplicates_flag, debug \in BOOLEAN :
       args = MainArgs(fix_duplicates_flag, FALSE, debug)
  /\ phases = <<>>
  /\ merged = NoMerge
  /\ Outside

SpecMerge == InitMerge /\ [][NextRun]_vars

\* ------------------------------------------------------------------------
\* Properties of the transactions of the duplicate pass
\* ------------------------------------------------------------------------

\* the duplicate groups of the store the pass started from, in the order the
\* pass takes them
DuplicateGroups ==
  SelectSeq(CanonicalGroups(merged.profs), LAMBDA g : Len(g) > 1)

\* the records of group g left in the store
LeftOf(g) ==
  {g[j] : j \in 1..Len(g)} \cap DOMAIN profs

\* C32: each duplicate group is merged in a transaction of its own: after
\* the pass the groups up to some group are merged, one record left of each,
\* and the groups after it are as they were; a group is left unmerged only
\* when the store refused a commit, and the groups merged before it stay
\* merged.
C32_OneTransactionPerGroup ==
  merged.ran
    => \E k \in 0..Len(DuplicateGroups) :
         /\ \A j \in 1..k : Cardinality(LeftOf(DuplicateGroups[j])) = 1
         /\ \A j \in (k+1)..Len(DuplicateGroups) :
              Cardinality(LeftOf(DuplicateGroups[j])) = Len(DuplicateGroups[j])
         /\ k < Len(DuplicateGroups) => ~merged.commitOk

\* ------------------------------------------------------------------------
\* A run in RMP-only mode with one professor more than the pool has workers
\* ------------------------------------------------------------------------

\* the fewest professors for which a task has to wait for a free worker
WorkerProfs ==
  MULTIPROCESS_POOL_SIZE + 1

InitWorkers ==
  /\ now = 0
  /\ cache = default_cache
  /\ cacheFile = default_cache
  /\ last = Call("start", <<>>, Absent, 0)
  /\ putLog = <<>>
  /\ manualLog = <<>>
  /\ searchLog = <<>>
  /\ profs = [i \in 1..WorkerProfs |-> ProfRow(PoolName(i), NoEnrichment)]
  /\ dists = <<>>
  /\ pc = "idle"
  /\ snapshot = <<>>
  /\ task = <<>>
  /\ outcome = <<>>
  /\ args = MainArgs(FALSE, TRUE, FALSE)
  /\ phases = <<>>
  /\ merged = NoMerge
  /\ Outside

NextWorkers ==
  \/ \E commitOk \in BOOLEAN : MergeDuplicates(commitOk)
  \/ StartResolving
  \/ \E i \in 1..Len(snapshot) : TaskStart(i)
  \/ \E i \in 1..Len(snapshot) :
       \E reply \in PoolReplies(snapshot[i].name) : TaskEnd(i, reply, TRUE)
  \/ MapReturn
  \/ MapRaise
  \/ VerifyIntegrity

SpecWorkers == InitWorkers /\ [][NextWorkers]_vars

\* ------------------------------------------------------------------------
\* Properties of the pool
\* ------------------------------------------------------------------------

\* C33: at every moment of the resolution batch the number of tasks in
\* progress, one per chunk a worker holds, and so the number of provider
\* calls in flight, is at most MULTIPROCESS_POOL_SIZE
C33_AtMostPoolSizeInProgress ==
  pc = "resolving" => Cardinality(RunningChunks) <= MULTIPROCESS_POOL_SIZE

\* every worker of the pool is busy and a professor waits for a free one
C33_Witness ==
  /\ pc = "resolving"
  /\ Cardinality(RunningChunks) = MULTIPROCESS_POOL_SIZE
  /\ \E p \in DOMAIN task : task[p] = "pending"

\* ------------------------------------------------------------------------
\* The workers' writes of the cache file, step by step.  _save_cache opens
\* rmp_cache.json with open(..., 'w'), which truncates it, and json.dump
\* and the close write the text at the start of the file; the workers are
\* processes of their own and nothing locks the file.
\* ------------------------------------------------------------------------

\* the file just truncated: no bytes, json.load raises on it
EmptyFile ==
  UnreadableFile

\* the text of one cache followed by the tail of a longer text written
\* before it: json.load raises on it
TornFile ==
  [kind |-> "unreadable", value |-> <<"tail">>]

\* what _load_cache finds when it opens a file of this content
FileStore(content) ==
  IF content \in {EmptyFile, TornFile} THEN content ELSE JsonObject(content)

\* the candidate records the text of a cache holds
CandidatesIn(c) ==
  Cardinality(UNION { UNION { {<<tier, k, j>> : j \in 1..Len(c[tier][k].data)} :
                                k \in DOMAIN c[tier] } :
                        tier \in {"positive", "manual"} })

\* json.dump's text of the cache c is longer than what the file holds,
\* whatever the lengths of its keys and timestamps: it holds more candidate
\* records than the cache the file was written from
SurelyLonger(c, content) ==
  /\ content \notin {EmptyFile, TornFile}
  /\ CandidatesIn(c) > CandidatesIn(content)

\* a worker whose search has to store the provider's answer reaches
\* _save_cache and opens the cache file
FlushOpen(i) ==
  /\ pc = "resolving"
  /\ i \in 1..Len(snapshot)
  /\ task[snapshot[i].id] = "running"
  /\ \A j \in 1..(i - 1) :
       ChunkOf(j) = ChunkOf(i) => task[snapshot[j].id] \notin Running
  /\ \E search \in {get_prof_by_school_and_name(
                      workerCache[ChunkOf(i)], workerCache[ChunkOf(i)],
                      snapshot[i].name, now,
                      provider[SearchText(snapshot[i].name)])} :
       search.calls = 1 /\ ~search.raised
  /\ task' = [task EXCEPT ![snapshot[i].id] = "flushing"]
  /\ cacheFile' = EmptyFile
  /\ UNCHANGED <<profs, pc, snapshot, outcome, dists, args, phases, merged,
                 workerCache>>
  /\ UNCHANGED <<now, cache, last, putLog, manualLog, searchLog>>
  /\ UNCHANGED outsideVars

\* the worker writes its cache to the file it opened and closes it, and
\* goes on with the matching and the write to the store.  The text goes to
\* the start of the file: when another worker wrote the file since this
\* one opened it, the file holds this worker's text alone if that is at
\* least as long as what was there, and this text followed by the rest of
\* the other otherwise.  Which of the two it is depends on the lengths of
\* the two texts, unless this one is surely the longer.
FlushWrite(i) ==
  /\ pc = "resolving"
  /\ i \in 1..Len(snapshot)
  /\ task[snapshot[i].id] = "flushing"
  /\ \E prof \in {snapshot[i]} :
       \E search \in {get_prof_by_school_and_name(
                        workerCache[ChunkOf(i)], workerCache[ChunkOf(i)],
                        prof.name, now, provider[SearchText(prof.name)])} :
         \E done \in {update_prof_by_name(profs[prof.id], prof.name, search,
                                          TRUE)} :
           /\ cacheFile' \in IF \/ cacheFile = EmptyFile
                                \/ SurelyLonger(search.file, cacheFile)
                             THEN {search.file}
                             ELSE {search.file, TornFile}
           /\ workerCache' = DictSet(workerCache, ChunkOf(i), search.cache)
           /\ profs' = [profs EXCEPT ![prof.id] = done.row]
           /\ outcome' = [outcome EXCEPT ![prof.id] = done]
           /\ task' = [p \in DOMAIN task |->
                         IF p = prof.id
                         THEN (IF done.raised THEN "failed" ELSE "done")
                         ELSE IF /\ done.raised
                                 /\ \E j \in (i + 1)..Len(snapshot) :
                                      /\ snapshot[j].id = p
                                      /\ ChunkOf(j) = ChunkOf(i)
                         THEN "skipped"
                         ELSE task[p]]
  /\ UNCHANGED <<pc, snapshot, dists, args, phases, merged>>
  /\ UNCHANGED <<now, cache, last, putLog, manualLog, searchLog>>
  /\ UNCHANGED outsideVars

\* a professor with a manual entry, two whose search the provider answers
\* with a candidate and one it does not find
FlushStore ==
  << ProfRow(JaneDoe, NoEnrichment), ProfRow(BobSmith, NoEnrichment),
     ProfRow(PoolName(1), NoEnrichment), ProfRow(JonSmith, NoEnrichment) >>

\* the providers: each finds Robert Smith for the text "Smith", or raises
\* on it, and finds nobody for any other text
FlushProviders ==
  { [text \in SearchTexts(FlushStore) |->
       IF text = <<"S","m","i","t","h">> THEN smith
       ELSE ProviderReturns(<<>>)] :
      smith \in {ProviderReturns(<<cRobertSmith>>), ProviderRaises} }

\* the parent's cache holds a manual entry for "jane doe", as the file does
InitFlush ==
  /\ now = 0
  /\ cache = add_manual_cache_entry(default_cache, JaneDoe,
                                    ManualData(JaneDoe, 7), 0)
  /\ cacheFile = cache
  /\ last = Call("start", <<>>, Absent, 0)
  /\ putLog = <<>>
  /\ manualLog = <<>>
  /\ searchLog = <<>>
  /\ profs = FlushStore
  /\ dists = <<>>
  /\ pc = "idle"
  /\ snapshot = <<>>
  /\ task = <<>>
  /\ outcome = <<>>
  /\ args = MainArgs(FALSE, TRUE, FALSE)
  /\ phases = <<>>
  /\ merged = NoMerge
  /\ workerCache = <<>>
  /\ provider \in FlushProviders
  /\ csv = Null
  /\ listed = NoExport
  /\ commands = 0

NextFlush ==
  \/ \E commitOk \in BOOLEAN : MergeDuplicates(commitOk)
  \/ StartResolving
  \/ \E i \in 1..Len(snapshot) : TaskStart(i)
  \/ \E i \in 1..Len(snapshot) :
       TaskEnd(i, provider[SearchText(snapshot[i].name)], TRUE)
  \/ \E i \in 1..Len(snapshot) : FlushOpen(i)
  \/ \E i \in 1..Len(snapshot) : FlushWrite(i)
  \/ MapReturn
  \/ MapRaise
  \/ VerifyIntegrity

SpecFlush == InitFlush /\ [][NextFlush]_vars

\* the cache a process that starts now loads from the cache file
Durable ==
  load_cache(FileStore(cacheFile))

\* C34: whatever the interleaving of the workers' cache reads, puts and
\* writes of the file, every manual entry the cache held when the batch
\* started is in the durable cache, with the same data, when the batch ends
C34_ManualSurvivesBatch ==
  pc \in {"completed", "raised", "returned"}
    => \A k \in DOMAIN cache.manual :
         /\ k \in DOMAIN Durable.manual
         /\ Durable.manual[k] = cache.manual[k]

\* ------------------------------------------------------------------------
\* Properties of the professor store under the manual operations and runs
\* ------------------------------------------------------------------------

\* C35: in every state reached by enrichment updates, manual link
\* additions, manual imports and merges, every professor record with a
\* profile link has a score
C35_LinkOnlyWithScore ==
  \A p \in DOMAIN profs :
    profs[p].RMP_link # Null => profs[p].RMP_score # Null

\* C36: add_manual_rmp_link(name, id) is all-or-nothing: when it returns
\* False the cache, in memory and on file, and the professor store are as
\* they were; when it returns True the manual cache entry exists and the
\* professor's profile link is <provider-base>/professor/<id>
C36_AddManualAllOrNothing ==
  [][ ( /\ commands' # commands
        /\ last'.op = "add_manual"
        /\ last'.name.argv.rmp_id # Null )
        => LET name == last'.name.argv.add_manual[1]
               id == last'.name.argv.rmp_id[1]
           IN  IF last'.ret = Hit(0)
               THEN /\ get_cache_key(name) \in DOMAIN cache'.manual
                    /\ get_cache_key(name) \in DOMAIN cacheFile'.manual
                    /\ profs'[FirstByName(profs, name)[1]].RMP_link
                         = Some(ProfileLink(id))
               ELSE /\ profs' = profs
                    /\ cacheFile' = cacheFile
                    /\ cache' = load_cache(JsonObject(cacheFile)) ]_vars


\* ------------------------------------------------------------------------
\* Manual links followed by a run: --add-manual for professors of the store,
\* time passing between the command lines, and a run in RMP-only mode. The
\* store always commits.
\* ------------------------------------------------------------------------

\* " Doe", the name clean_instructor_name makes of "Doe,"
SpaceDoe ==
  <<" ","D","o","e">>

\* the stores the manual links are made on
ManualStores ==
  { << ProfRow(JaneDoe, NoEnrichment), ProfRow(SpaceDoe, NoEnrichment) >>,
    << ProfRow(JaneDoeLoose, NoEnrichment), ProfRow(BobSmith, NoEnrichment) >> }

\* the ids given with --rmp-id: "7", "8", "07"
ManualIds ==
  {<<"7">>, <<"8">>, <<"0","7">>}

InitManual ==
  /\ now = 0
  /\ cache = default_cache
  /\ cacheFile = default_cache
  /\ last = Call("start", <<>>, Absent, 0)
  /\ putLog = <<>>
  /\ manualLog = <<>>
  /\ searchLog = <<>>
  /\ profs \in ManualStores
  /\ dists = <<>>
  /\ pc = "shell"
  /\ snapshot = <<>>
  /\ task = <<>>
  /\ outcome = <<>>
  /\ args = MainArgs(FALSE, FALSE, FALSE)
  /\ phases = <<>>
  /\ merged = NoMerge
  /\ Outside

NextManual ==
  \/ \E p \in DOMAIN profs, rmp_id \in ManualIds :
       Main(AddManual(profs[p].name, Some(rmp_id), FALSE), TRUE)
  \/ Main(Flag("rmp_only", FALSE), TRUE)
  \/ \E d \in Days : pc = "shell" /\ Tick(d)
  \/ \E commitOk \in BOOLEAN : MergeDuplicates(commitOk)
  \/ StartResolving
  \/ \E i \in 1..Len(snapshot) : TaskStart(i)
  \/ \E i \in 1..Len(snapshot) :
       \E reply \in Replies(CliAnswers) : TaskEnd(i, reply, TRUE)
  \/ MapReturn
  \/ MapRaise
  \/ VerifyIntegrity
  \/ MainReturn

SpecManual == InitManual /\ [][NextManual]_vars

\* ------------------------------------------------------------------------
\* Properties of the resolution of a professor with a manual link
\* ------------------------------------------------------------------------

\* the manual entry under the professor's cache key was made for this
\* professor with the id given, and the store holds the link made with it
ManuallyLinked(row, rmp_id) ==
  /\ get_cache_key(row.name) \in DOMAIN manualLog
  /\ manualLog[get_cache_key(row.name)] = ManualData(row.name, ParseInt(rmp_id))
  /\ row.RMP_link = Some(ProfileLink(rmp_id))

\* a worker ends the resolution of professor p in this step
Resolves(p) ==
  /\ pc = "resolving"
  /\ p \in DOMAIN task
  /\ task[p] = "running"
  /\ task'[p] # "running"

\* C37: after add_manual_rmp_link(name, id) has succeeded for a professor,
\* the next resolution of that professor makes no provider call, takes the
\* manual cache entry as its sole exact match and leaves the professor with
\* the profile link made of the id and with a score, at whatever time it
\* runs
C37_ManualEntryResolves ==
  [][ \A p \in DOMAIN profs : \A rmp_id \in ManualIds :
        (Resolves(p) /\ ManuallyLinked(profs[p], rmp_id))
          => /\ outcome'[p].calls = 0
             /\ outcome'[p].tier = "exact"
             /\ outcome'[p].profMatches
                  = ManualCandidates(manualLog[get_cache_key(profs[p].name)])
             /\ profs'[p].RMP_link = Some(ProfileLink(rmp_id))
             /\ profs'[p].RMP_score # Null ]_vars


\* ------------------------------------------------------------------------
\* Resolutions whose candidates are near the professor's name: one letter
\* more or less in the first name, one letter changed in the last name
\* ------------------------------------------------------------------------

\* "Ann Andersen"
AnnAndersen ==
  <<"A","n","n"," ","A","n","d","e","r","s","e","n">>

cAnnAndersen ==
  Candidate(<<"A","n","n">>, <<"A","n","d","e","r","s","e","n">>,
            Some(401), Some(40), Some(20), Some(80))

cAnnaAndersen ==
  Candidate(<<"A","n","n","a">>, <<"A","n","d","e","r","s","e","n">>,
            Some(402), Some(41), Some(21), Some(81))

cAnnAnderson ==
  Candidate(<<"A","n","n">>, <<"A","n","d","e","r","s","o","n">>,
            Some(403), Some(42), Some(22), Some(82))

\* the professor rows of the stores, by id
GateProfessors ==
  << ProfRow(JonSmith, NoEnrichment), ProfRow(AnnAndersen, NoEnrichment) >>

\* the answers the provider may give to the search for a name
GateAnswers(name) ==
  IF name = JonSmith
  THEN { <<cJohnSmith>>, <<cJohnnySmith>>, <<cJonSmyth>>, <<cJonSmith>> }
  ELSE { <<cAnnAndersen>>, <<cAnnaAndersen>>, <<cAnnAnderson>>,
         <<cAnnAnderson, cAnnaAndersen>> }

InitGate ==
  /\ now = 0
  /\ cache = default_cache
  /\ cacheFile = default_cache
  /\ last = Call("start", <<>>, Absent, 0)
  /\ putLog = <<>>
  /\ manualLog = <<>>
  /\ searchLog = <<>>
  /\ \E ids \in SUBSET (1..Len(GateProfessors)) :
       /\ ids # {}
       /\ profs = [i \in ids |-> GateProfessors[i]]
  /\ pc = "idle"
  /\ snapshot = <<>>
  /\ task = <<>>
  /\ outcome = <<>>
  /\ dists = <<>>
  /\ args = MainArgs(FALSE, TRUE, FALSE)
  /\ phases = <<>>
  /\ merged = NoMerge
  /\ Outside

NextGate ==
  \/ \E commitOk \in BOOLEAN : MergeDuplicates(commitOk)
  \/ StartResolving
  \/ \E i \in 1..Len(snapshot) : TaskStart(i)
  \/ \E i \in 1..Len(snapshot), dbOk \in BOOLEAN :
       \E reply \in Replies(GateAnswers(snapshot[i].name)) :
         TaskEnd(i, reply, dbOk)
  \/ MapReturn
  \/ MapRaise
  \/ VerifyIntegrity

SpecGate == InitGate /\ [][NextGate]_vars

\* ------------------------------------------------------------------------
\* Properties of the candidates that are neither exact nor canonical-equal
\* ------------------------------------------------------------------------

\* the candidate the resolution of professor p wrote to the store is no
\* exact match of the professor's name, and its canonical name differs from
\* the canonical target
UsedDiffering(p) ==
  /\ outcome[p].result = "updated"
  /\ Strip(CandidateName(outcome[p].profMatches[1])) # profs[p].name
  /\ canonicalize_name(CandidateName(outcome[p].profMatches[1]))
       # canonicalize_name(profs[p].name)

Enriches(p) ==
  /\ p \in DOMAIN outcome
  /\ outcome[p].result = "none"
  /\ outcome'[p].result = "updated"

\* C39: a successful enrichment of professor p changes at most the four
\* rating fields of p: the ids of the store, p's name, every other
\* professor record and every relation are as before
C39_EnrichmentFrame ==
  [][ \A p \in DOMAIN profs :
        Enriches(p)
          => /\ DOMAIN profs' = DOMAIN profs
             /\ profs'[p].name = profs[p].name
             /\ DOMAIN profs'[p] = DOMAIN profs[p]
             /\ \A f \in DOMAIN profs[p] :
                  f \notin {"RMP_score", "RMP_diff", "RMP_would_take_again",
                            "RMP_link"}
                    => profs'[p][f] = profs[p][f]
             /\ \A q \in DOMAIN profs \ {p} : profs'[q] = profs[q]
             /\ dists' = dists ]_vars

\* a professor was enriched in a store that holds another record of its
\* canonical name, which is not enriched, and relations
C39_Witness ==
  \E p, q \in DOMAIN outcome :
    /\ p # q
    /\ outcome[p].result = "updated"
    /\ profs[p].RMP_link = Some(ProfileLink(Str(101)))
    /\ canonicalize_name(profs[q].name) = canonicalize_name(profs[p].name)
    /\ profs[q].RMP_link = Null
    /\ dists # <<>>
====
